---- MODULE Spec2Model ----
(***************************************************************************)
(* Interview session state machine of app/interview: the in-memory         *)
(* InterviewStorage, the InterviewService operations start_interview,      *)
(* submit_answer, get_report, get_interview_state, get_current_question    *)
(* and the adaptive difficulty rule of OpenAIService.                      *)
(*                                                                         *)
(* The service runs as coroutines on one asyncio event loop.  A coroutine  *)
(* runs without interruption between two suspension points; the only real  *)
(* suspension points of the service are the calls to the provider          *)
(* (evaluate_answer, generate_question, generate_final_report).  The store *)
(* operations take an asyncio.Lock that is never held across a suspension, *)
(* so they never wait.  Each action below is one such uninterrupted block. *)
(*                                                                         *)
(* The store keeps references: storage.get returns the very InterviewState *)
(* object that the dictionary holds, so a mutation made by a call in       *)
(* flight is visible at once to every other call.  `interviews` is the     *)
(* heap of these objects, `storage` the keys of the dictionary.            *)
(*                                                                         *)
(* The experience descriptor and the subject of the config are opaque      *)
(* values that are only passed on to the provider; they are not modelled.  *)
(* (The service reads the descriptor as experience_years where the models  *)
(* declare experience_level; the model follows the flow the service        *)
(* implements and leaves the descriptor out.)                              *)
(*                                                                         *)
(* Specifications: Spec, the sessions under start_interview, submit_answer *)
(* and the reads; SpecReport, the sessions under get_report; SpecOverlap,  *)
(* longer sessions without a clock; SpecLive, one client under fairness;   *)
(* SpecController, calculate_adaptive_difficulty on its own; SpecStore,    *)
(* InterviewStorage on its own, one operation a step; SpecLock,            *)
(* InterviewStorage statement by statement under its lock; SpecEvaluate,   *)
(* the sessions with the evaluation read from the provider's JSON;         *)
(* SpecTwo, two sessions side by side; SpecSocket, the realtime            *)
(* transcription websocket of app/speech (`ws`).                           *)
(***************************************************************************)
EXTENDS Integers, Sequences, FiniteSets

\* ---------------------------------------------------------------- bounds
MaxQuestions == 2       \* largest num_questions a start request asks for
MaxRecentScores == 3    \* longest score list handed to the controller
MaxTimeout == 3         \* longest session timeout a store is built with
MaxRelayed == 2         \* most messages a websocket session relays each way

InterviewIds == {1}     \* identifiers uuid4() hands out
Tasks == {"t1", "t2"}   \* concurrent calls
Answers == {"a"}        \* answer texts (opaque to the service)
Scores == {2, 9}        \* scores the provider returns (within 1..10)

\* session_timeout_minutes=60, the clock counting half hours
SessionTimeout == 2

\* the clock runs long enough for an untouched session to expire
MaxTime == SessionTimeout + 1

\* ------------------------------------------------------------ data model
Difficulty == {"easy", "medium", "hard"}
difficulty_order == <<"easy", "medium", "hard">>

IN_PROGRESS == "in_progress"
COMPLETED == "completed"

\* Optional values: None, or a one-element tuple holding the value.
None == <<>>
Some(v) == <<v>>

VARIABLES
    interviews,   \* interview_id -> InterviewState object
    storage,      \* keys of InterviewStorage._storage
    timestamps,   \* InterviewStorage._timestamps
    lock,         \* InterviewStorage._lock: the task holding it, or None
    session_timeout,  \* InterviewStorage._session_timeout
    now,          \* datetime.utcnow()
    calls,        \* task -> frame of the call it runs
    last,         \* the response most recently returned at the boundary
    ws            \* the realtime transcription websocket session

vars == <<interviews, storage, timestamps, lock, session_timeout, now, calls,
          last, ws>>

\* QuestionAnswerRecord
QuestionAnswerRecord(question) ==
    [question |-> question, answer |-> None, evaluation |-> None]

\* InterviewQuestion as built by generate_question
InterviewQuestion(question_number, difficulty) ==
    [question_number |-> question_number, difficulty |-> difficulty]

\* QuestionEvaluation as built by evaluate_answer
QuestionEvaluation(score) == [score |-> score]

\* InitialInterviewState counting the questions from 0
InitialInterviewState_IndexZero(interview_id, difficulty, num_questions, first_question) ==
    [interview_id |-> interview_id,
     config |-> [difficulty |-> difficulty, num_questions |-> num_questions],
     current_question_num |-> 0,
     conversation_history |-> <<QuestionAnswerRecord(first_question)>>,
     status |-> IN_PROGRESS]

\* InterviewState built by start_interview
InitialInterviewState(interview_id, difficulty, num_questions, first_question) ==
    [interview_id |-> interview_id,
     config |-> [difficulty |-> difficulty, num_questions |-> num_questions],
     current_question_num |-> 1,
     conversation_history |-> <<QuestionAnswerRecord(first_question)>>,
     status |-> IN_PROGRESS]

\* ------------------------------------------------------- InterviewStorage
Expired(interview_id) ==
    now - timestamps[interview_id] > session_timeout

\* InterviewStorage.get: whether it returns the interview
GetFinds(interview_id) ==
    interview_id \in storage /\ ~Expired(interview_id)

\* StorageAfterGet leaving an expired key in the dictionary
StorageAfterGet_KeepsExpired(interview_id) == storage

\* InterviewStorage.get: the dictionary keys after the call
StorageAfterGet(interview_id) ==
    IF interview_id \in storage /\ Expired(interview_id)
    THEN storage \ {interview_id}
    ELSE storage

\* TimestampsAfterGet without the refresh of a found entry
TimestampsAfterGet_NoRefresh(interview_id) ==
    IF interview_id \notin storage THEN timestamps
    ELSE IF Expired(interview_id)
         THEN [i \in DOMAIN timestamps \ {interview_id} |-> timestamps[i]]
         ELSE timestamps

\* InterviewStorage.get: the timestamps after the call
TimestampsAfterGet(interview_id) ==
    IF interview_id \notin storage THEN timestamps
    ELSE IF Expired(interview_id)
         THEN [i \in DOMAIN timestamps \ {interview_id} |-> timestamps[i]]
         ELSE [timestamps EXCEPT ![interview_id] = now]

\* InterviewStorage.create / InterviewStorage.update: the timestamps after
\* TimestampsAfterPut stamping every entry
TimestampsAfterPut_StampsAll(interview_id) ==
    [i \in DOMAIN timestamps \cup {interview_id} |-> now]

TimestampsAfterPut(interview_id) ==
    [i \in DOMAIN timestamps \cup {interview_id} |->
        IF i = interview_id THEN now ELSE timestamps[i]]

\* DeleteReturns reporting a removal whether or not the id was stored
DeleteReturns_Always(interview_id) == TRUE

\* InterviewStorage.delete: what it returns
DeleteReturns(interview_id) == interview_id \in storage

\* InterviewStorage.delete: the dictionary keys after the call
StorageAfterDelete(interview_id) == storage \ {interview_id}

\* InterviewStorage.delete: the timestamps after the call
TimestampsAfterDelete(interview_id) ==
    [i \in DOMAIN timestamps \ {interview_id} |-> timestamps[i]]

\* ExpiredIds taking an entry for expired when its age equals the timeout
ExpiredIds_AtTimeout ==
    {i \in DOMAIN timestamps : now - timestamps[i] >= session_timeout}

\* InterviewStorage.cleanup_expired: expired_ids
ExpiredIds ==
    {i \in DOMAIN timestamps : now - timestamps[i] > session_timeout}

\* InterviewStorage.cleanup_expired: the dictionary keys after the call
StorageAfterCleanup == storage \ ExpiredIds

\* TimestampsAfterCleanup leaving the timestamps of the removed sessions
TimestampsAfterCleanup_KeepsStamps == timestamps

\* InterviewStorage.cleanup_expired: the timestamps after the call
TimestampsAfterCleanup ==
    [i \in DOMAIN timestamps \ ExpiredIds |-> timestamps[i]]

\* what a store operation returned, and the utcnow() it read
StoreResponse(op, interview_id, result, time) ==
    [op |-> op, interview_id |-> interview_id, result |-> result,
     time |-> time]

\* ------------------------------------------------- difficulty controller
RECURSIVE Sum(_)
Sum(s) == IF s = <<>> THEN 0 ELSE Head(s) + Sum(Tail(s))

IndexOf(d) == CHOOSE i \in 1..3 : difficulty_order[i] = d

\* calculate_adaptive_difficulty with the thresholds excluded
calculate_adaptive_difficulty_Strict(current_difficulty, recent_scores) ==
    IF recent_scores = <<>> THEN current_difficulty
    ELSE LET n == Len(recent_scores)
             total == Sum(recent_scores)
             current_index == IndexOf(current_difficulty) - 1
         IN  IF total > 8 * n /\ current_index < 2
             THEN difficulty_order[(current_index + 1) + 1]
             ELSE IF total < 4 * n /\ current_index > 0
                  THEN difficulty_order[(current_index - 1) + 1]
                  ELSE current_difficulty

\* OpenAIService.calculate_adaptive_difficulty.  avg >= 8 and avg <= 4 are
\* compared on the sums, which is exact.
calculate_adaptive_difficulty(current_difficulty, recent_scores) ==
    IF recent_scores = <<>> THEN current_difficulty
    ELSE LET n == Len(recent_scores)
             total == Sum(recent_scores)
             current_index == IndexOf(current_difficulty) - 1
         IN  IF total >= 8 * n /\ current_index < 2
             THEN difficulty_order[(current_index + 1) + 1]
             ELSE IF total <= 4 * n /\ current_index > 0
                  THEN difficulty_order[(current_index - 1) + 1]
                  ELSE current_difficulty

\* the scores of the evaluated records, in ledger order
RECURSIVE EvaluatedScores(_)
EvaluatedScores(history) ==
    IF history = <<>> THEN <<>>
    ELSE LET rest == EvaluatedScores(Tail(history))
         IN  IF Head(history).evaluation # None
             THEN <<Head(history).evaluation[1].score>> \o rest
             ELSE rest

\* [...][-3:]
LastThree(s) ==
    IF Len(s) <= 3 THEN s ELSE SubSeq(s, Len(s) - 2, Len(s))

RecentScores(history) == LastThree(EvaluatedScores(history))

\* ------------------------------------------------------------- responses
\* no websocket session
NoSocket ==
    [pc |-> "none", available |-> TRUE, api_key |-> TRUE,
     upstream |-> "none", client |-> "none",
     openai_task |-> "none", client_task |-> "none",
     to_client |-> <<>>, to_upstream |-> <<>>]

NoCall ==
    [pc |-> "idle", interview_id |-> 0, question_number |-> 0, answer |-> None,
     current_record |-> 0, evaluation |-> None, questions_remaining |-> 0,
     next_question_number |-> 0, adaptive_difficulty |-> None,
     answered_records |-> <<>>]

\* ------------------------------------------------ errors and the router
\* the exception class the service raises for a failure kind
ErrorClass(kind) ==
    CASE kind = "NotFound" -> "InterviewNotFoundError"
      [] kind = "AlreadyCompleted" -> "InterviewAlreadyCompletedError"
      [] kind = "InvalidQuestionNumber" -> "InvalidQuestionNumberError"
      [] kind = "NotCompleted" -> "InterviewServiceError"
      [] OTHER -> "Exception"

\* the classes an exception of the class is an instance of
Bases(class) ==
    CASE class \in {"InterviewNotFoundError", "InterviewAlreadyCompletedError",
                    "InvalidQuestionNumberError"} ->
             {class, "InterviewServiceError", "Exception"}
      [] class = "InterviewServiceError" -> {"InterviewServiceError", "Exception"}
      [] OTHER -> {"Exception"}

\* get_report catching InterviewServiceError before InterviewNotFoundError
ExceptClauses_BaseFirst(op) ==
    CASE op = "submit_answer" ->
             << <<"InterviewNotFoundError", 404>>,
                <<"InterviewAlreadyCompletedError", 400>>,
                <<"InvalidQuestionNumberError", 400>>,
                <<"Exception", 500>> >>
      [] op = "get_report" ->
             << <<"InterviewServiceError", 400>>,
                <<"InterviewNotFoundError", 404>>,
                <<"Exception", 500>> >>
      [] op \in {"get_interview_state", "get_current_question"} ->
             << <<"InterviewNotFoundError", 404>>, <<"Exception", 500>> >>
      [] OTHER -> << <<"Exception", 500>> >>

\* the except clauses of the endpoint, in order
ExceptClauses(op) ==
    CASE op = "submit_answer" ->
             << <<"InterviewNotFoundError", 404>>,
                <<"InterviewAlreadyCompletedError", 400>>,
                <<"InvalidQuestionNumberError", 400>>,
                <<"Exception", 500>> >>
      [] op = "get_report" ->
             << <<"InterviewNotFoundError", 404>>,
                <<"InterviewServiceError", 400>>,
                <<"Exception", 500>> >>
      [] op \in {"get_interview_state", "get_current_question"} ->
             << <<"InterviewNotFoundError", 404>>, <<"Exception", 500>> >>
      [] OTHER -> << <<"Exception", 500>> >>

\* the status of the first except clause that matches the exception
RECURSIVE FirstMatch(_, _)
FirstMatch(clauses, class) ==
    IF clauses[1][1] \in Bases(class)
    THEN clauses[1][2]
    ELSE FirstMatch(Tail(clauses), class)

\* the status code of the endpoint's answer
HttpStatus(op, kind) ==
    CASE kind = "none" -> 0
      [] kind = "ok" -> IF op = "start_interview" THEN 201 ELSE 200
      [] OTHER -> FirstMatch(ExceptClauses(op), ErrorClass(kind))

\* Response reporting a provider failure as a success
Response_MasksFailure(op, interview_id, question_number, kind) ==
    [op |-> op, interview_id |-> interview_id, question_number |-> question_number,
     kind |-> IF kind = "ProviderFailure" THEN "ok" ELSE kind,
     status_code |-> HttpStatus(op, kind),
     is_complete |-> FALSE, questions_remaining |-> 0,
     current_question_num |-> 0, next_question |-> None,
     overall_score |-> None, questions_answered |-> 0,
     question_wise_breakdown |-> <<>>]

Response(op, interview_id, question_number, kind) ==
    [op |-> op, interview_id |-> interview_id, question_number |-> question_number,
     kind |-> kind, status_code |-> HttpStatus(op, kind),
     is_complete |-> FALSE, questions_remaining |-> 0,
     current_question_num |-> 0, next_question |-> None,
     overall_score |-> None, questions_answered |-> 0,
     question_wise_breakdown |-> <<>>]

\* ------------------------------------------ InterviewService.submit_answer
\* SubmitCheck rejecting only numbers ahead of the current one
SubmitCheck_AcceptsStale(found, interview, question_number) ==
    IF ~found THEN "NotFound"
    ELSE IF interview.status = COMPLETED THEN "AlreadyCompleted"
    ELSE IF question_number > interview.current_question_num
         THEN "InvalidQuestionNumber"
         ELSE "ok"

\* SubmitCheck answering a missing session like a wrong number
SubmitCheck_MissingAsInvalid(found, interview, question_number) ==
    IF ~found THEN "InvalidQuestionNumber"
    ELSE IF interview.status = COMPLETED THEN "AlreadyCompleted"
    ELSE IF question_number # interview.current_question_num
         THEN "InvalidQuestionNumber"
         ELSE "ok"

\* SubmitCheck comparing the number before looking at the status
SubmitCheck_NumberFirst(found, interview, question_number) ==
    IF ~found THEN "NotFound"
    ELSE IF question_number # interview.current_question_num
         THEN "InvalidQuestionNumber"
    ELSE IF interview.status = COMPLETED THEN "AlreadyCompleted"
         ELSE "ok"

\* the three checks made before anything else, in their order
SubmitCheck(found, interview, question_number) ==
    IF ~found THEN "NotFound"
    ELSE IF interview.status = COMPLETED THEN "AlreadyCompleted"
    ELSE IF question_number # interview.current_question_num
         THEN "InvalidQuestionNumber"
         ELSE "ok"

\* current_record.answer = ...; current_record.evaluation = ...
RecordAnswer(interview, current_record, answer, evaluation) ==
    [interview EXCEPT
        !.conversation_history[current_record].answer = Some(answer),
        !.conversation_history[current_record].evaluation = Some(evaluation)]

\* IsComplete asking for one question more
IsComplete_OneLate(interview) ==
    interview.current_question_num > interview.config.num_questions

IsComplete(interview) ==
    interview.current_question_num >= interview.config.num_questions

\* CurrentDifficulty following the difficulty of the last question
CurrentDifficulty_OfLastQuestion(interview) ==
    interview.conversation_history[
        Len(interview.conversation_history)].question.difficulty

\* current_difficulty=interview.config.difficulty
CurrentDifficulty(interview) == interview.config.difficulty

QuestionsRemaining(interview) ==
    interview.config.num_questions - interview.current_question_num

\* interview.status = InterviewStatus.COMPLETED
MarkCompleted(interview) ==
    [interview EXCEPT !.status = COMPLETED]

\* AppendNextQuestion forgetting the increment
AppendNextQuestion_NoIncrement(interview, next_question) ==
    [interview EXCEPT
        !.conversation_history = Append(@, QuestionAnswerRecord(next_question))]

\* AppendNextQuestion putting the status back to in_progress
AppendNextQuestion_Reopens(interview, next_question) ==
    [interview EXCEPT
        !.conversation_history = Append(@, QuestionAnswerRecord(next_question)),
        !.current_question_num = @ + 1,
        !.status = IN_PROGRESS]

\* conversation_history.append(next_record); current_question_num += 1
AppendNextQuestion(interview, next_question) ==
    [interview EXCEPT
        !.conversation_history = Append(@, QuestionAnswerRecord(next_question)),
        !.current_question_num = @ + 1]

Init ==
    /\ interviews = <<>>
    /\ storage = {}
    /\ timestamps = <<>>
    /\ lock = None
    /\ session_timeout = SessionTimeout
    /\ ws = NoSocket
    /\ now = 0
    /\ calls = [t \in Tasks |-> NoCall]
    /\ last = Response("none", 0, 0, "none")

\* ----------------------------------------------------------------- actions
\* uuid4(): an identifier no interview has yet
uuid4 == CHOOSE i \in InterviewIds \ DOMAIN interviews : TRUE

\* The difficulty of the question the provider returns.  The prompt tells
\* the provider to echo the requested difficulty, and a response without
\* one defaults to it; the service never reads the field again.
ProviderDifficulty(requested) == {requested}

\* start_interview, the provider returning the first question
StartInterview(difficulty, num_questions, question_difficulty) ==
    /\ InterviewIds \ DOMAIN interviews # {}
    /\ LET interview_id == uuid4
           first_question == InterviewQuestion(1, question_difficulty)
           interview_state == InitialInterviewState(
               interview_id, difficulty, num_questions, first_question)
       IN  /\ interviews' = [i \in DOMAIN interviews \cup {interview_id} |->
                               IF i = interview_id THEN interview_state
                               ELSE interviews[i]]
           /\ storage' = storage \cup {interview_id}
           /\ timestamps' = TimestampsAfterPut(interview_id)
           /\ last' = [Response("start_interview", interview_id, 1, "ok")
                          EXCEPT !.next_question = Some(first_question)]
    /\ UNCHANGED <<now, calls, lock, session_timeout, ws>>

\* start_interview, generate_question raising
StartInterviewFails ==
    /\ InterviewIds \ DOMAIN interviews # {}
    /\ last' = Response("start_interview", 0, 0, "ProviderFailure")
    /\ UNCHANGED <<interviews, storage, timestamps, now, calls,
                 lock, session_timeout, ws>>

\* submit_answer up to the call of evaluate_answer
SubmitAnswer(t, interview_id, question_number, answer) ==
    /\ calls[t].pc = "idle"
    /\ LET found == GetFinds(interview_id)
           interview == IF found THEN interviews[interview_id] ELSE None
           kind == SubmitCheck(found, interview, question_number)
       IN  /\ storage' = StorageAfterGet(interview_id)
           /\ timestamps' = TimestampsAfterGet(interview_id)
           /\ IF kind = "ok"
              THEN /\ calls' = [calls EXCEPT ![t] =
                        [NoCall EXCEPT
                            !.pc = "evaluate_answer",
                            !.interview_id = interview_id,
                            !.question_number = question_number,
                            !.answer = Some(answer),
                            !.current_record = Len(interview.conversation_history)]]
                   /\ UNCHANGED last
              ELSE /\ last' = Response("submit_answer", interview_id,
                                       question_number, kind)
                   /\ UNCHANGED calls
    /\ UNCHANGED <<interviews, now, lock, session_timeout, ws>>

\* evaluate_answer returns; submit_answer runs on to its return (the final
\* question) or to the call of generate_question
EvaluateAnswerReturns(t, score) ==
    /\ calls[t].pc = "evaluate_answer"
    /\ LET c == calls[t]
           id == c.interview_id
           evaluation == QuestionEvaluation(score)
           recorded == RecordAnswer(interviews[id], c.current_record,
                                    c.answer[1], evaluation)
           is_complete == IsComplete(recorded)
           questions_remaining == QuestionsRemaining(recorded)
       IN  IF is_complete
           THEN /\ interviews' = [interviews EXCEPT ![id] = MarkCompleted(recorded)]
                /\ storage' = storage \cup {id}
                /\ timestamps' = TimestampsAfterPut(id)
                /\ calls' = [calls EXCEPT ![t] = NoCall]
                /\ last' = [Response("submit_answer", id, c.question_number, "ok")
                               EXCEPT !.is_complete = TRUE,
                                      !.questions_remaining = questions_remaining,
                                      !.current_question_num =
                                          recorded.current_question_num]
           ELSE /\ interviews' = [interviews EXCEPT ![id] = recorded]
                /\ calls' = [calls EXCEPT ![t] =
                        [c EXCEPT
                            !.pc = "generate_question",
                            !.evaluation = Some(evaluation),
                            !.questions_remaining = questions_remaining,
                            !.next_question_number =
                                recorded.current_question_num + 1,
                            !.adaptive_difficulty =
                                Some(calculate_adaptive_difficulty(
                                    CurrentDifficulty(recorded),
                                    RecentScores(recorded.conversation_history)))]]
                /\ UNCHANGED <<storage, timestamps, last>>
    /\ UNCHANGED <<now, lock, session_timeout, ws>>

\* evaluate_answer raises (provider failure, or a score outside 1..10)
EvaluateAnswerFails(t) ==
    /\ calls[t].pc = "evaluate_answer"
    /\ last' = Response("submit_answer", calls[t].interview_id,
                        calls[t].question_number, "ProviderFailure")
    /\ calls' = [calls EXCEPT ![t] = NoCall]
    /\ UNCHANGED <<interviews, storage, timestamps, now,
                 lock, session_timeout, ws>>

\* generate_question returns; submit_answer runs on to its return
GenerateQuestionReturns(t, question_difficulty) ==
    /\ calls[t].pc = "generate_question"
    /\ LET c == calls[t]
           id == c.interview_id
           next_question == InterviewQuestion(c.next_question_number,
                                              question_difficulty)
           appended == AppendNextQuestion(interviews[id], next_question)
       IN  /\ interviews' = [interviews EXCEPT ![id] = appended]
           /\ storage' = storage \cup {id}
           /\ timestamps' = TimestampsAfterPut(id)
           /\ last' = [Response("submit_answer", id, c.question_number, "ok")
                          EXCEPT !.questions_remaining = c.questions_remaining - 1,
                                 !.current_question_num =
                                     appended.current_question_num,
                                 !.next_question = Some(next_question)]
    /\ calls' = [calls EXCEPT ![t] = NoCall]
    /\ UNCHANGED <<now, lock, session_timeout, ws>>

\* generate_question raises
GenerateQuestionFails(t) ==
    /\ calls[t].pc = "generate_question"
    /\ last' = Response("submit_answer", calls[t].interview_id,
                        calls[t].question_number, "ProviderFailure")
    /\ calls' = [calls EXCEPT ![t] = NoCall]
    /\ UNCHANGED <<interviews, storage, timestamps, now,
                 lock, session_timeout, ws>>

\* ReportCheck letting a session in progress through
ReportCheck_AnyStatus(found, interview) ==
    IF ~found THEN "NotFound" ELSE "ok"

\* the check get_report makes on the interview the store returned
ReportCheck(found, interview) ==
    IF ~found THEN "NotFound"
    ELSE IF interview.status # COMPLETED THEN "NotCompleted"
    ELSE "ok"

\* answered_records: the records with an answer and an evaluation, as
\* positions in the ledger (the list holds the record objects themselves)
RECURSIVE AnsweredRecords(_, _)
AnsweredRecords(history, k) ==
    IF k > Len(history) THEN <<>>
    ELSE IF history[k].answer # None /\ history[k].evaluation # None
         THEN <<k>> \o AnsweredRecords(history, k + 1)
         ELSE AnsweredRecords(history, k + 1)

\* [r.evaluation.score for r in answered_records]
RECURSIVE RecordScores(_, _)
RecordScores(history, answered_records) ==
    IF answered_records = <<>> THEN <<>>
    ELSE <<history[Head(answered_records)].evaluation[1].score>>
             \o RecordScores(history, Tail(answered_records))

\* question_breakdown: one QuestionBreakdown for each of answered_records
RECURSIVE QuestionBreakdown(_, _)
QuestionBreakdown(history, answered_records) ==
    IF answered_records = <<>> THEN <<>>
    ELSE LET r == history[Head(answered_records)]
         IN  <<[question_number |-> r.question.question_number,
                difficulty |-> r.question.difficulty,
                score |-> r.evaluation[1].score]>>
                 \o QuestionBreakdown(history, Tail(answered_records))

\* a number as the quotient of two integers
Ratio(num, den) == [num |-> num, den |-> den]

\* sum(scores) / len(scores) if scores else 0
MeanScore(scores) ==
    IF scores = <<>> THEN Ratio(0, 1) ELSE Ratio(Sum(scores), Len(scores))

\* the overall_score of the response: the provider's when the report has
\* one, the mean of the scores otherwise
OverallScore(report_overall_score, scores) ==
    IF report_overall_score = None THEN MeanScore(scores)
    ELSE Ratio(report_overall_score[1], 1)

\* the overall_score of the provider's report: the key left out, or a
\* number that FinalReportResponse accepts (ge=0, le=10)
ProviderOverallScores == {None, Some(7)}

\* get_report up to the call of generate_final_report
GetReport(t, interview_id) ==
    /\ calls[t].pc = "idle"
    /\ LET found == GetFinds(interview_id)
           interview == IF found THEN interviews[interview_id] ELSE None
           kind == ReportCheck(found, interview)
       IN  /\ storage' = StorageAfterGet(interview_id)
           /\ timestamps' = TimestampsAfterGet(interview_id)
           /\ IF kind = "ok"
              THEN /\ calls' = [calls EXCEPT ![t] =
                                  [NoCall EXCEPT
                                     !.pc = "generate_final_report",
                                     !.interview_id = interview_id,
                                     !.answered_records = AnsweredRecords(
                                         interview.conversation_history, 1)]]
                   /\ UNCHANGED last
              ELSE /\ last' = Response("get_report", interview_id, 0, kind)
                   /\ UNCHANGED calls
    /\ UNCHANGED <<interviews, now, lock, session_timeout, ws>>

\* generate_final_report returns; get_report builds its response
GenerateFinalReportReturns(t, report_overall_score) ==
    /\ calls[t].pc = "generate_final_report"
    /\ LET interview == interviews[calls[t].interview_id]
           answered_records == calls[t].answered_records
           scores == RecordScores(interview.conversation_history,
                                  answered_records)
       IN  last' = [Response("get_report", calls[t].interview_id, 0, "ok")
                      EXCEPT !.overall_score =
                                 Some(OverallScore(report_overall_score,
                                                   scores)),
                             !.questions_answered = Len(answered_records),
                             !.question_wise_breakdown =
                                 QuestionBreakdown(interview.conversation_history,
                                                   answered_records)]
    /\ calls' = [calls EXCEPT ![t] = NoCall]
    /\ UNCHANGED <<interviews, storage, timestamps, now, lock,
                   session_timeout, ws>>

\* generate_final_report raises
GenerateFinalReportFails(t) ==
    /\ calls[t].pc = "generate_final_report"
    /\ last' = Response("get_report", calls[t].interview_id, 0,
                        "ProviderFailure")
    /\ calls' = [calls EXCEPT ![t] = NoCall]
    /\ UNCHANGED <<interviews, storage, timestamps, now, lock,
                   session_timeout, ws>>

\* get_interview_state
GetInterviewState(interview_id) ==
    /\ storage' = StorageAfterGet(interview_id)
    /\ timestamps' = TimestampsAfterGet(interview_id)
    /\ last' = Response("get_interview_state", interview_id, 0,
                        IF GetFinds(interview_id) THEN "ok" ELSE "NotFound")
    /\ UNCHANGED <<interviews, now, calls, lock, session_timeout, ws>>

\* get_current_question
GetCurrentQuestion(interview_id) ==
    /\ LET found == GetFinds(interview_id)
           interview == interviews[interview_id]
           history == interview.conversation_history
       IN  /\ storage' = StorageAfterGet(interview_id)
           /\ timestamps' = TimestampsAfterGet(interview_id)
           /\ last' = IF ~found
                      THEN Response("get_current_question", interview_id, 0,
                                    "NotFound")
                      ELSE [Response("get_current_question", interview_id, 0, "ok")
                              EXCEPT !.next_question =
                                  IF interview.status = COMPLETED \/ history = <<>>
                                  THEN None
                                  ELSE Some(history[Len(history)].question)]
    /\ UNCHANGED <<interviews, now, calls, lock, session_timeout, ws>>

\* time passes
Tick ==
    /\ now < MaxTime
    /\ now' = now + 1
    /\ UNCHANGED <<interviews, storage, timestamps, calls, last,
                 lock, session_timeout, ws>>

Next ==
    \/ \E d \in Difficulty, n \in 1..MaxQuestions :
          \E qd \in ProviderDifficulty(d) : StartInterview(d, n, qd)
    \/ StartInterviewFails
    \/ \E t \in Tasks, i \in InterviewIds, q \in 1..(MaxQuestions + 1),
          a \in Answers : SubmitAnswer(t, i, q, a)
    \/ \E t \in Tasks, s \in Scores : EvaluateAnswerReturns(t, s)
    \/ \E t \in Tasks : EvaluateAnswerFails(t)
    \/ \E t \in Tasks :
          /\ calls[t].pc = "generate_question"
          /\ \E qd \in ProviderDifficulty(calls[t].adaptive_difficulty[1]) :
                GenerateQuestionReturns(t, qd)
    \/ \E t \in Tasks : GenerateQuestionFails(t)
    \/ \E i \in InterviewIds : GetInterviewState(i)
    \/ \E i \in InterviewIds : GetCurrentQuestion(i)
    \/ Tick

Spec == Init /\ [][Next]_vars

\* ------------------------------------------------ sessions and reports
\* get_report next to start_interview and submit_answer.  A get_report
\* call shares with the other calls only what storage.get does, which the
\* reads of Next do as well.  The report does not look at difficulties:
\* the interviews start at medium.
NextReport ==
    \/ \E n \in 1..MaxQuestions : StartInterview("medium", n, "medium")
    \/ \E t \in Tasks, i \in InterviewIds, q \in 1..(MaxQuestions + 1),
          a \in Answers : SubmitAnswer(t, i, q, a)
    \/ \E t \in Tasks, s \in Scores : EvaluateAnswerReturns(t, s)
    \/ \E t \in Tasks : EvaluateAnswerFails(t)
    \/ \E t \in Tasks :
          /\ calls[t].pc = "generate_question"
          /\ \E qd \in ProviderDifficulty(calls[t].adaptive_difficulty[1]) :
                GenerateQuestionReturns(t, qd)
    \/ \E t \in Tasks : GenerateQuestionFails(t)
    \/ \E t \in Tasks, i \in InterviewIds : GetReport(t, i)
    \/ \E t \in Tasks, s \in ProviderOverallScores :
          GenerateFinalReportReturns(t, s)
    \/ \E t \in Tasks : GenerateFinalReportFails(t)
    \/ Tick

SpecReport == Init /\ [][NextReport]_vars

\* ------------------------------------------ longer sessions, no clock
\* Sessions of MaxQuestions + 1 questions with overlapping submit_answer
\* calls; no time passes, so no session expires.
NextOverlap ==
    \/ \E d \in Difficulty : StartInterview(d, MaxQuestions + 1, d)
    \/ \E t \in Tasks, i \in InterviewIds, q \in 1..(MaxQuestions + 2),
          a \in Answers : SubmitAnswer(t, i, q, a)
    \/ \E t \in Tasks, s \in Scores : EvaluateAnswerReturns(t, s)
    \/ \E t \in Tasks : EvaluateAnswerFails(t)
    \/ \E t \in Tasks :
          /\ calls[t].pc = "generate_question"
          /\ \E qd \in ProviderDifficulty(calls[t].adaptive_difficulty[1]) :
                GenerateQuestionReturns(t, qd)
    \/ \E t \in Tasks : GenerateQuestionFails(t)

SpecOverlap == Init /\ [][NextOverlap]_vars

\* --------------------------------------- the provider's evaluation JSON
\* the "score" field of the provider's JSON: absent, or a number
ResponseScores == {None, Some(0), Some(1), Some(10), Some(11)}

\* response.get("score", 5)
ResponseGet(field, default) == IF field = None THEN default ELSE field[1]

\* ValidScore accepting every number
ValidScore_Any(score) == TRUE

\* score: int = Field(..., ge=1, le=10)
ValidScore(score) == score >= 1 /\ score <= 10

\* evaluate_answer gets the provider's JSON and builds the
\* QuestionEvaluation, which raises when the score is out of range
EvaluateAnswerResponds(t, response_score) ==
    LET score == ResponseGet(response_score, 5)
    IN  IF ValidScore(score)
        THEN EvaluateAnswerReturns(t, score)
        ELSE EvaluateAnswerFails(t)

\* Sessions under the scores a provider may answer; no time passes.
NextEvaluate ==
    \/ \E n \in 1..MaxQuestions : StartInterview("medium", n, "medium")
    \/ \E t \in Tasks, i \in InterviewIds, q \in 1..(MaxQuestions + 1),
          a \in Answers : SubmitAnswer(t, i, q, a)
    \/ \E t \in Tasks, r \in ResponseScores : EvaluateAnswerResponds(t, r)
    \/ \E t \in Tasks :
          /\ calls[t].pc = "generate_question"
          /\ \E qd \in ProviderDifficulty(calls[t].adaptive_difficulty[1]) :
                GenerateQuestionReturns(t, qd)
    \/ \E t \in Tasks : GenerateQuestionFails(t)

SpecEvaluate == Init /\ [][NextEvaluate]_vars

\* ------------------------------------------- one client, a live session
\* A client that makes one call at a time on a session that does not expire
\* (no time passes): it answers the current question of a session in
\* progress and asks for the report.  A provider call may fail.
ClientSubmits(t, interview_id) ==
    /\ \A u \in Tasks : calls[u].pc = "idle"
    /\ interview_id \in DOMAIN interviews
    /\ interviews[interview_id].status = IN_PROGRESS
    /\ \E a \in Answers :
          SubmitAnswer(t, interview_id,
                       interviews[interview_id].current_question_num, a)

ClientGetsReport(t, interview_id) ==
    /\ \A u \in Tasks : calls[u].pc = "idle"
    /\ interview_id \in DOMAIN interviews
    /\ GetReport(t, interview_id)

EvaluateAnswerSucceeds == \E t \in Tasks, s \in Scores : EvaluateAnswerReturns(t, s)

GenerateQuestionSucceeds ==
    \E t \in Tasks :
        /\ calls[t].pc = "generate_question"
        /\ \E qd \in ProviderDifficulty(calls[t].adaptive_difficulty[1]) :
              GenerateQuestionReturns(t, qd)

GenerateFinalReportSucceeds ==
    \E t \in Tasks, s \in ProviderOverallScores : GenerateFinalReportReturns(t, s)

NextLive ==
    \/ \E d \in Difficulty, n \in 1..MaxQuestions, qd \in Difficulty :
          StartInterview(d, n, qd)
    \/ \E t \in Tasks, i \in InterviewIds : ClientSubmits(t, i)
    \/ EvaluateAnswerSucceeds
    \/ \E t \in Tasks : EvaluateAnswerFails(t)
    \/ GenerateQuestionSucceeds
    \/ \E t \in Tasks : GenerateQuestionFails(t)
    \/ \E t \in Tasks, i \in InterviewIds : ClientGetsReport(t, i)
    \/ GenerateFinalReportSucceeds
    \/ \E t \in Tasks : GenerateFinalReportFails(t)

\* The client keeps calling, and a provider call that is made again and
\* again does not fail forever.
SpecLive ==
    /\ Init
    /\ [][NextLive]_vars
    /\ WF_vars(\E t \in Tasks, i \in InterviewIds : ClientSubmits(t, i))
    /\ WF_vars(\E t \in Tasks, i \in InterviewIds : ClientGetsReport(t, i))
    /\ SF_vars(EvaluateAnswerSucceeds)
    /\ SF_vars(GenerateQuestionSucceeds)
    /\ SF_vars(GenerateFinalReportSucceeds)

\* ------------------------------- speech: the realtime transcription socket
\* realtime_transcription relays audio from the client websocket to the
\* upstream (OpenAI) websocket and transcripts back.  The handler and its
\* two relay tasks run on the event loop; an action is the block a task
\* runs between two awaits.  to_client and to_upstream are the messages
\* sent so far; the client and the upstream end may close at any time.
ServiceVars ==
    <<interviews, storage, timestamps, lock, session_timeout, now, calls, last>>

\* events the upstream sends
UpstreamEvents ==
    {"conversation.item.input_audio_transcription.completed",
     "input_audio_buffer.speech_started", "input_audio_buffer.speech_stopped",
     "error", "session.created"}

\* messages the client sends
ClientMessages == {"audio", "commit", "stop"}

\* receive_from_client: the message sent upstream for a client message
UpstreamType(message) ==
    IF message = "audio" THEN "input_audio_buffer.append"
    ELSE "input_audio_buffer.commit"

\* receive_from_openai: the message forwarded to the client for an event
\* (a completed transcription carries a non-empty transcript)
ForwardedType(event) ==
    CASE event = "conversation.item.input_audio_transcription.completed"
             -> Some("transcript")
      [] event = "input_audio_buffer.speech_started" -> Some("speech_started")
      [] event = "input_audio_buffer.speech_stopped" -> Some("speech_stopped")
      [] event = "error" -> Some("error")
      [] OTHER -> None

\* websocket.send_json(...) on a client socket that is open
SendJson(w, type) == [w EXCEPT !.to_client = Append(@, type)]

\* a client connects; the platform has the websockets library or not, the
\* API key is configured or not
InitSocket ==
    /\ interviews = <<>>
    /\ storage = {}
    /\ timestamps = <<>>
    /\ lock = None
    /\ session_timeout = SessionTimeout
    /\ now = 0
    /\ calls = [t \in Tasks |-> NoCall]
    /\ last = Response("none", 0, 0, "none")
    /\ \E available \in BOOLEAN, api_key \in BOOLEAN :
          ws = [NoSocket EXCEPT !.pc = "accept", !.client = "open",
                                !.available = available, !.api_key = api_key]

\* await websocket.accept(), then the two checks
Accept ==
    /\ ws.pc = "accept"
    /\ ws' = [ws EXCEPT !.pc = IF ~ws.available \/ ~ws.api_key
                               THEN "refuse" ELSE "connect"]
    /\ UNCHANGED ServiceVars

\* send_json(error) of a refused session; raises if the client is gone
Refuse ==
    /\ ws.pc = "refuse"
    /\ ws' = IF ws.client = "open"
             THEN [SendJson(ws, "error") EXCEPT !.pc = "refuse_close"]
             ELSE [ws EXCEPT !.pc = "done"]
    /\ UNCHANGED ServiceVars

\* websocket.close() of a refused session, and return
RefuseClose ==
    /\ ws.pc = "refuse_close"
    /\ ws' = [ws EXCEPT !.pc = "done",
                        !.client = IF @ = "open" THEN "closed" ELSE @]
    /\ UNCHANGED ServiceVars

\* websockets.connect returns
ConnectReturns ==
    /\ ws.pc = "connect"
    /\ ws' = [ws EXCEPT !.pc = "send_config", !.upstream = "open"]
    /\ UNCHANGED ServiceVars

\* websockets.connect raises
ConnectFails ==
    /\ ws.pc = "connect"
    /\ ws' = [ws EXCEPT !.pc = "report_error"]
    /\ UNCHANGED ServiceVars

SendSessionConfig_AfterReady ==
    /\ ws.pc = "send_config"
    /\ ws' = [ws EXCEPT !.pc = "send_ready"]
    /\ UNCHANGED ServiceVars

\* openai_ws.send(session_config); raises if the upstream has closed
SendSessionConfig ==
    /\ ws.pc = "send_config"
    /\ ws' = IF ws.upstream = "open"
             THEN [ws EXCEPT !.pc = "send_ready",
                             !.to_upstream = Append(@, "session.update")]
             ELSE [ws EXCEPT !.pc = "report_error"]
    /\ UNCHANGED ServiceVars

\* send_json(ready), then both relay tasks are created and the handler
\* waits; raises if the client is gone
SendReady ==
    /\ ws.pc = "send_ready"
    /\ ws' = IF ws.client = "open"
             THEN [SendJson(ws, "ready") EXCEPT !.pc = "wait",
                                                !.openai_task = "running",
                                                !.client_task = "running"]
             ELSE [ws EXCEPT !.pc = "report_error"]
    /\ UNCHANGED ServiceVars

\* the except clauses of the handler: try to tell the client
ReportError ==
    /\ ws.pc = "report_error"
    /\ ws' = [(IF ws.client = "open" THEN SendJson(ws, "error") ELSE ws)
                EXCEPT !.pc = "close_upstream"]
    /\ UNCHANGED ServiceVars

\* receive_from_openai: one event arrives and is handled
ReceiveFromOpenAI(event) ==
    /\ ws.openai_task = "running"
    /\ ws.upstream = "open"
    /\ Len(ws.to_client) <= MaxRelayed
    /\ LET type == ForwardedType(event)
       IN  ws' = IF type = None THEN ws
                 ELSE IF ws.client = "open" THEN SendJson(ws, type[1])
                 ELSE [ws EXCEPT !.openai_task = "done"]
    /\ UNCHANGED ServiceVars

\* receive_from_openai: the upstream connection has closed, the loop ends
OpenAIRelayEnds ==
    /\ ws.openai_task = "running"
    /\ ws.upstream = "closed"
    /\ ws' = [ws EXCEPT !.openai_task = "done"]
    /\ UNCHANGED ServiceVars

\* receive_from_client: one message arrives and is handled
ReceiveFromClient(message) ==
    /\ ws.client_task = "running"
    /\ ws.client = "open"
    /\ Len(ws.to_upstream) <= MaxRelayed
    /\ ws' = IF message = "stop" THEN [ws EXCEPT !.client_task = "done"]
             ELSE IF ws.upstream = "open"
                  THEN [ws EXCEPT !.to_upstream =
                                      Append(@, UpstreamType(message))]
                  ELSE [SendJson(ws, "error") EXCEPT !.client_task = "done"]
    /\ UNCHANGED ServiceVars

\* receive_from_client: WebSocketDisconnect
ClientRelayEnds ==
    /\ ws.client_task = "running"
    /\ ws.client = "gone"
    /\ ws' = [ws EXCEPT !.client_task = "done"]
    /\ UNCHANGED ServiceVars

\* asyncio.wait returns to the handler, which cancels the pending task
CancelPending ==
    /\ ws.pc = "wait"
    /\ ws.openai_task = "done" \/ ws.client_task = "done"
    /\ ws' = [ws EXCEPT !.pc = "close_upstream",
                        !.openai_task = IF @ = "running" THEN "cancelled" ELSE @,
                        !.client_task = IF @ = "running" THEN "cancelled" ELSE @]
    /\ UNCHANGED ServiceVars

CloseUpstream_LeavesOpen ==
    /\ ws.pc = "close_upstream"
    /\ ws' = [ws EXCEPT !.pc = "send_closed"]
    /\ UNCHANGED ServiceVars

\* finally: openai_ws.close() if there is an upstream connection
CloseUpstream ==
    /\ ws.pc = "close_upstream"
    /\ ws' = [ws EXCEPT !.pc = "send_closed",
                        !.upstream = IF @ = "none" THEN "none" ELSE "closed"]
    /\ UNCHANGED ServiceVars

\* finally: send_json(closed); a failure is swallowed with the close
SendClosed ==
    /\ ws.pc = "send_closed"
    /\ ws' = IF ws.client = "open"
             THEN [SendJson(ws, "closed") EXCEPT !.pc = "close_client"]
             ELSE [ws EXCEPT !.pc = "done"]
    /\ UNCHANGED ServiceVars

\* finally: websocket.close()
CloseClient ==
    /\ ws.pc = "close_client"
    /\ ws' = [ws EXCEPT !.pc = "done",
                        !.client = IF @ = "open" THEN "closed" ELSE @]
    /\ UNCHANGED ServiceVars

\* the client goes away
ClientDisconnects ==
    /\ ws.pc \notin {"none", "done"}
    /\ ws.client = "open"
    /\ ws' = [ws EXCEPT !.client = "gone"]
    /\ UNCHANGED ServiceVars

\* the upstream closes the connection
UpstreamCloses ==
    /\ ws.upstream = "open"
    /\ ws' = [ws EXCEPT !.upstream = "closed"]
    /\ UNCHANGED ServiceVars

NextSocket ==
    \/ Accept
    \/ Refuse
    \/ RefuseClose
    \/ ConnectReturns
    \/ ConnectFails
    \/ SendSessionConfig
    \/ SendReady
    \/ ReportError
    \/ \E event \in UpstreamEvents : ReceiveFromOpenAI(event)
    \/ OpenAIRelayEnds
    \/ \E message \in ClientMessages : ReceiveFromClient(message)
    \/ ClientRelayEnds
    \/ CancelPending
    \/ CloseUpstream
    \/ SendClosed
    \/ CloseClient
    \/ ClientDisconnects
    \/ UpstreamCloses

\* the steps of the handler after its wait; the event loop runs a task
\* that is ready to run
HandlerEnds == CancelPending \/ CloseUpstream \/ SendClosed \/ CloseClient

SpecSocket == InitSocket /\ [][NextSocket]_vars /\ WF_vars(HandlerEnds)

\* ------------------------------------- the difficulty controller by itself
\* QuestionEvaluation.score: ge=1, le=10
ScoreRange == 1..10

\* the lists of at most n scores
ScoreLists(n) == UNION {[1..k -> ScoreRange] : k \in 0..n}

\* the frame of a call of calculate_adaptive_difficulty
ControllerCall(current_difficulty, recent_scores) ==
    [pc |-> "calculate_adaptive_difficulty",
     current_difficulty |-> current_difficulty,
     recent_scores |-> recent_scores, result |-> None]

\* one task is about to call the controller, on any difficulty and any list
\* of at most MaxRecentScores scores
InitController ==
    /\ interviews = <<>>
    /\ storage = {}
    /\ timestamps = <<>>
    /\ lock = None
    /\ session_timeout = SessionTimeout
    /\ ws = NoSocket
    /\ now = 0
    /\ \E t \in Tasks, d \in Difficulty, s \in ScoreLists(MaxRecentScores) :
          calls = [u \in Tasks |-> IF u = t THEN ControllerCall(d, s)
                                   ELSE NoCall]
    /\ last = Response("none", 0, 0, "none")

\* the call returns
CalculateAdaptiveDifficulty(t) ==
    /\ calls[t].pc = "calculate_adaptive_difficulty"
    /\ calls' = [calls EXCEPT
                   ![t].pc = "returned",
                   ![t].result = Some(calculate_adaptive_difficulty(
                       calls[t].current_difficulty, calls[t].recent_scores))]
    /\ UNCHANGED <<interviews, storage, timestamps, lock, session_timeout, ws,
                   now, last>>

NextController == \E t \in Tasks : CalculateAdaptiveDifficulty(t)

SpecController == InitController /\ [][NextController]_vars

\* ------------------------------------------------ the store by itself
\* Each operation of InterviewStorage is one block under the lock.
StoreIds == {1, 2}

\* the clock runs past two lifetimes of the longest timeout
MaxStoreTime == 2 * MaxTimeout

\* InterviewState objects a caller may hand to create or update
StoreSessions ==
    {InitialInterviewState(i, d, 1, InterviewQuestion(1, d)) :
        i \in StoreIds, d \in {"easy", "hard"}}

\* InterviewStorage(session_timeout_minutes=...): an empty store
InitStore ==
    /\ interviews = <<>>
    /\ storage = {}
    /\ timestamps = <<>>
    /\ lock = None
    /\ session_timeout \in 1..MaxTimeout
    /\ ws = NoSocket
    /\ now = 0
    /\ calls = [t \in Tasks |-> NoCall]
    /\ last = StoreResponse("none", 0, None, 0)

\* the object the dictionary holds under the interview's id after a write
InterviewsAfterPut(interview) ==
    [i \in DOMAIN interviews \cup {interview.interview_id} |->
        IF i = interview.interview_id THEN interview ELSE interviews[i]]

\* InterviewStorage.create
StoreCreate(interview) ==
    /\ interviews' = InterviewsAfterPut(interview)
    /\ storage' = storage \cup {interview.interview_id}
    /\ timestamps' = TimestampsAfterPut(interview.interview_id)
    /\ last' = StoreResponse("create", interview.interview_id, Some(interview),
                             now)
    /\ UNCHANGED <<lock, session_timeout, ws, now, calls>>

\* InterviewStorage.update
StoreUpdate(interview) ==
    /\ interviews' = InterviewsAfterPut(interview)
    /\ storage' = storage \cup {interview.interview_id}
    /\ timestamps' = TimestampsAfterPut(interview.interview_id)
    /\ last' = StoreResponse("update", interview.interview_id, Some(interview),
                             now)
    /\ UNCHANGED <<lock, session_timeout, ws, now, calls>>

\* InterviewStorage.get
StoreGet(interview_id) ==
    /\ storage' = StorageAfterGet(interview_id)
    /\ timestamps' = TimestampsAfterGet(interview_id)
    /\ last' = StoreResponse("get", interview_id,
                             IF GetFinds(interview_id)
                             THEN Some(interviews[interview_id]) ELSE None,
                             now)
    /\ UNCHANGED <<interviews, lock, session_timeout, ws, now, calls>>

\* InterviewStorage.delete
StoreDelete(interview_id) ==
    /\ storage' = StorageAfterDelete(interview_id)
    /\ timestamps' = TimestampsAfterDelete(interview_id)
    /\ last' = StoreResponse("delete", interview_id,
                             DeleteReturns(interview_id), 0)
    /\ UNCHANGED <<interviews, lock, session_timeout, ws, now, calls>>

\* InterviewStorage.cleanup_expired
StoreCleanupExpired ==
    /\ storage' = StorageAfterCleanup
    /\ timestamps' = TimestampsAfterCleanup
    /\ last' = StoreResponse("cleanup_expired", 0, Cardinality(ExpiredIds),
                             now)
    /\ UNCHANGED <<interviews, lock, session_timeout, ws, now, calls>>

\* time passes
StoreTick ==
    /\ now < MaxStoreTime
    /\ now' = now + 1
    /\ UNCHANGED <<interviews, storage, timestamps, lock, session_timeout, ws,
                   calls, last>>

NextStore ==
    \/ \E interview \in StoreSessions : StoreCreate(interview)
    \/ \E interview \in StoreSessions : StoreUpdate(interview)
    \/ \E i \in StoreIds : StoreGet(i)
    \/ \E i \in StoreIds : StoreDelete(i)
    \/ StoreCleanupExpired
    \/ StoreTick

SpecStore == InitStore /\ [][NextStore]_vars

\* ------------------------------------------------------- two sessions
\* Session 2 was started earlier (a medium interview of 2 questions, not
\* yet answered); session 1 is started and both are used, read, reported,
\* deleted and swept while time passes.
SessionIds == {1, 2}

InitTwo ==
    /\ interviews = [i \in {2} |->
            InitialInterviewState(2, "medium", 2, InterviewQuestion(1, "medium"))]
    /\ storage = {2}
    /\ timestamps = [i \in {2} |-> 0]
    /\ lock = None
    /\ session_timeout = SessionTimeout
    /\ ws = NoSocket
    /\ now = 0
    /\ calls = [t \in Tasks |-> NoCall]
    /\ last = [Response("start_interview", 2, 1, "ok")
                  EXCEPT !.next_question = Some(InterviewQuestion(1, "medium"))]

\* the caller working on a session: one call at a time on each session
SessionTask(i) == IF i = 1 THEN "t1" ELSE "t2"

NextTwo ==
    \/ StartInterview("medium", 2, "medium")
    \/ \E i \in SessionIds, q \in 1..2, a \in Answers :
          SubmitAnswer(SessionTask(i), i, q, a)
    \/ \E t \in Tasks, s \in Scores : EvaluateAnswerReturns(t, s)
    \/ \E t \in Tasks :
          /\ calls[t].pc = "generate_question"
          /\ \E qd \in ProviderDifficulty(calls[t].adaptive_difficulty[1]) :
                GenerateQuestionReturns(t, qd)
    \/ \E i \in SessionIds : GetReport(SessionTask(i), i)
    \/ \E t \in Tasks : GenerateFinalReportReturns(t, None)
    \/ \E i \in SessionIds : GetInterviewState(i)
    \/ \E i \in SessionIds : GetCurrentQuestion(i)
    \/ \E i \in SessionIds : StoreDelete(i)
    \/ StoreCleanupExpired
    \/ Tick

SpecTwo == InitTwo /\ [][NextTwo]_vars

\* ------------------------------------ the store, statement by statement
\* The statements of the store operations one by one, each run by the task
\* that holds _lock.  A task enters an operation by acquiring the lock
\* (async with self._lock) and leaves it by returning or raising, which
\* releases the lock.

\* a task that ignores the lock
LockFree_Always == TRUE

\* asyncio.Lock: acquire goes through when nobody holds the lock
LockFree == lock = None

\* the frame of a store operation: its position, its argument and its locals
StoreCall(pc, op, interview_id, interview, expired_ids) ==
    [pc |-> pc, op |-> op, interview_id |-> interview_id,
     interview |-> interview, expired_ids |-> expired_ids,
     count |-> Cardinality(expired_ids)]

\* the global interview_storage, empty
InitLock ==
    /\ interviews = <<>>
    /\ storage = {}
    /\ timestamps = <<>>
    /\ lock = None
    /\ session_timeout = SessionTimeout
    /\ ws = NoSocket
    /\ now = 0
    /\ calls = [t \in Tasks |-> NoCall]
    /\ last = StoreResponse("none", 0, None, 0)

\* async with self._lock, entered
Acquire(t, frame) ==
    /\ calls[t].pc = "idle"
    /\ LockFree
    /\ lock' = Some(t)
    /\ calls' = [calls EXCEPT ![t] = frame]
    /\ UNCHANGED <<interviews, storage, timestamps, session_timeout, ws, now,
                   last>>

\* return result: the lock is released
Return(t, result) ==
    /\ lock' = None
    /\ calls' = [calls EXCEPT ![t] = NoCall]
    /\ last' = StoreResponse(calls[t].op, calls[t].interview_id, result, now)

\* del of a missing key: KeyError leaves the operation, the lock is released
Raise(t) ==
    /\ lock' = None
    /\ calls' = [calls EXCEPT ![t] = NoCall]
    /\ last' = StoreResponse("KeyError", calls[t].interview_id, calls[t].op,
                             now)

\* the operation moves on to its next statement
Goto(t, pc) ==
    /\ calls' = [calls EXCEPT ![t].pc = pc]
    /\ UNCHANGED <<lock, last>>

\* del self._storage[interview_id]
DelStorage(t, interview_id, pc) ==
    IF interview_id \in storage
    THEN /\ storage' = storage \ {interview_id}
         /\ Goto(t, pc)
    ELSE /\ storage' = storage
         /\ Raise(t)

\* del self._timestamps[interview_id]
DelTimestamps(interview_id) ==
    [i \in DOMAIN timestamps \ {interview_id} |-> timestamps[i]]

\* get, create, update, delete, cleanup_expired: async with self._lock
CallGet(t, interview_id) ==
    Acquire(t, StoreCall("get_lookup", "get", interview_id, None, {}))

CallPut(t, op, interview) ==
    Acquire(t, StoreCall("put_storage", op, interview.interview_id,
                         Some(interview), {}))

CallDelete(t, interview_id) ==
    Acquire(t, StoreCall("delete_check", "delete", interview_id, None, {}))

CallCleanupExpired(t) ==
    Acquire(t, StoreCall("cleanup_collect", "cleanup_expired", 0, None, {}))

\* get: interview = self._storage.get(interview_id); None returns
GetLookup(t) ==
    /\ calls[t].pc = "get_lookup"
    /\ IF calls[t].interview_id \in storage
       THEN /\ calls' = [calls EXCEPT
                           ![t].pc = "get_check",
                           ![t].interview =
                               Some(interviews[calls[t].interview_id])]
            /\ UNCHANGED <<lock, last>>
       ELSE Return(t, None)
    /\ UNCHANGED <<interviews, storage, timestamps, session_timeout, ws, now>>

\* get: timestamp = self._timestamps.get(interview_id) and the expiry test
GetCheck(t) ==
    /\ calls[t].pc = "get_check"
    /\ IF /\ calls[t].interview_id \in DOMAIN timestamps
          /\ now - timestamps[calls[t].interview_id] > session_timeout
       THEN Goto(t, "get_del_storage")
       ELSE Goto(t, "get_refresh")
    /\ UNCHANGED <<interviews, storage, timestamps, session_timeout, ws, now>>

\* get: del self._storage[interview_id]
GetDelStorage(t) ==
    /\ calls[t].pc = "get_del_storage"
    /\ DelStorage(t, calls[t].interview_id, "get_del_timestamps")
    /\ UNCHANGED <<interviews, timestamps, session_timeout, ws, now>>

\* get: del self._timestamps[interview_id]; return None
GetDelTimestamps(t) ==
    /\ calls[t].pc = "get_del_timestamps"
    /\ IF calls[t].interview_id \in DOMAIN timestamps
       THEN /\ timestamps' = DelTimestamps(calls[t].interview_id)
            /\ Return(t, None)
       ELSE /\ timestamps' = timestamps
            /\ Raise(t)
    /\ UNCHANGED <<interviews, storage, session_timeout, ws, now>>

\* get: self._timestamps[interview_id] = utcnow(); return interview
GetRefresh(t) ==
    /\ calls[t].pc = "get_refresh"
    /\ timestamps' = TimestampsAfterPut(calls[t].interview_id)
    /\ Return(t, calls[t].interview)
    /\ UNCHANGED <<interviews, storage, session_timeout, ws, now>>

\* create, update: self._storage[interview.interview_id] = interview
PutStorage(t) ==
    /\ calls[t].pc = "put_storage"
    /\ interviews' = InterviewsAfterPut(calls[t].interview[1])
    /\ storage' = storage \cup {calls[t].interview_id}
    /\ Goto(t, "put_timestamps")
    /\ UNCHANGED <<timestamps, session_timeout, ws, now>>

\* create, update: self._timestamps[...] = utcnow(); return interview
PutTimestamps(t) ==
    /\ calls[t].pc = "put_timestamps"
    /\ timestamps' = TimestampsAfterPut(calls[t].interview_id)
    /\ Return(t, calls[t].interview)
    /\ UNCHANGED <<interviews, storage, session_timeout, ws, now>>

\* delete: if interview_id in self._storage
DeleteCheck(t) ==
    /\ calls[t].pc = "delete_check"
    /\ IF calls[t].interview_id \in storage
       THEN Goto(t, "delete_del_storage")
       ELSE Return(t, FALSE)
    /\ UNCHANGED <<interviews, storage, timestamps, session_timeout, ws, now>>

\* delete: del self._storage[interview_id]
DeleteDelStorage(t) ==
    /\ calls[t].pc = "delete_del_storage"
    /\ DelStorage(t, calls[t].interview_id, "delete_del_timestamps")
    /\ UNCHANGED <<interviews, timestamps, session_timeout, ws, now>>

\* delete: del self._timestamps[interview_id]; return True
DeleteDelTimestamps(t) ==
    /\ calls[t].pc = "delete_del_timestamps"
    /\ IF calls[t].interview_id \in DOMAIN timestamps
       THEN /\ timestamps' = DelTimestamps(calls[t].interview_id)
            /\ Return(t, TRUE)
       ELSE /\ timestamps' = timestamps
            /\ Raise(t)
    /\ UNCHANGED <<interviews, storage, session_timeout, ws, now>>

\* cleanup_expired: expired_ids = [...]; an empty list returns 0
CleanupCollect(t) ==
    /\ calls[t].pc = "cleanup_collect"
    /\ IF ExpiredIds = {}
       THEN Return(t, 0)
       ELSE /\ calls' = [calls EXCEPT
                           ![t].pc = "cleanup_del_storage",
                           ![t].expired_ids = ExpiredIds,
                           ![t].count = Cardinality(ExpiredIds)]
            /\ UNCHANGED <<lock, last>>
    /\ UNCHANGED <<interviews, storage, timestamps, session_timeout, ws, now>>

\* cleanup_expired: del self._storage[interview_id] for the next expired id
CleanupDelStorage(t, interview_id) ==
    /\ calls[t].pc = "cleanup_del_storage"
    /\ interview_id \in calls[t].expired_ids
    /\ IF interview_id \in storage
       THEN /\ storage' = storage \ {interview_id}
            /\ calls' = [calls EXCEPT
                           ![t].pc = "cleanup_del_timestamps",
                           ![t].interview_id = interview_id]
            /\ UNCHANGED <<lock, last>>
       ELSE /\ storage' = storage
            /\ Raise(t)
    /\ UNCHANGED <<interviews, timestamps, session_timeout, ws, now>>

\* cleanup_expired: del self._timestamps[interview_id]; after the last id,
\* return len(expired_ids)
CleanupDelTimestamps(t) ==
    /\ calls[t].pc = "cleanup_del_timestamps"
    /\ LET interview_id == calls[t].interview_id
           rest == calls[t].expired_ids \ {interview_id}
       IN  IF interview_id \notin DOMAIN timestamps
           THEN /\ timestamps' = timestamps
                /\ Raise(t)
           ELSE /\ timestamps' = DelTimestamps(interview_id)
                /\ IF rest = {}
                   THEN /\ lock' = None
                        /\ calls' = [calls EXCEPT ![t] = NoCall]
                        /\ last' = StoreResponse("cleanup_expired", 0,
                                                 calls[t].count, now)
                   ELSE /\ calls' = [calls EXCEPT
                                       ![t].pc = "cleanup_del_storage",
                                       ![t].interview_id = 0,
                                       ![t].expired_ids = rest]
                        /\ UNCHANGED <<lock, last>>
    /\ UNCHANGED <<interviews, storage, session_timeout, ws, now>>

\* time passes
LockTick ==
    /\ now < MaxTime
    /\ now' = now + 1
    /\ UNCHANGED <<interviews, storage, timestamps, lock, session_timeout, ws,
                   calls, last>>

NextLock ==
    \/ \E t \in Tasks, i \in StoreIds : CallGet(t, i)
    \/ \E t \in Tasks, interview \in StoreSessions :
          CallPut(t, "create", interview)
    \/ \E t \in Tasks, interview \in StoreSessions :
          CallPut(t, "update", interview)
    \/ \E t \in Tasks, i \in StoreIds : CallDelete(t, i)
    \/ \E t \in Tasks : CallCleanupExpired(t)
    \/ \E t \in Tasks : GetLookup(t)
    \/ \E t \in Tasks : GetCheck(t)
    \/ \E t \in Tasks : GetDelStorage(t)
    \/ \E t \in Tasks : GetDelTimestamps(t)
    \/ \E t \in Tasks : GetRefresh(t)
    \/ \E t \in Tasks : PutStorage(t)
    \/ \E t \in Tasks : PutTimestamps(t)
    \/ \E t \in Tasks : DeleteCheck(t)
    \/ \E t \in Tasks : DeleteDelStorage(t)
    \/ \E t \in Tasks : DeleteDelTimestamps(t)
    \/ \E t \in Tasks : CleanupCollect(t)
    \/ \E t \in Tasks, i \in StoreIds : CleanupDelStorage(t, i)
    \/ \E t \in Tasks : CleanupDelTimestamps(t)
    \/ LockTick

SpecLock == InitLock /\ [][NextLock]_vars

\* ------------------------------------------------------------------ claims
History(i) == interviews[i].conversation_history
Status(i) == interviews[i].status
Index(i) == interviews[i].current_question_num
NumQuestions(i) == interviews[i].config.num_questions

NoCallInFlight == \A t \in Tasks : calls[t].pc = "idle"

AnsweredTurns(i) == {k \in 1..Len(History(i)) : History(i)[k].answer # None}

\* C1: whenever no submit_answer call is in flight, every turn but the last
\* has an answer and an evaluation, and while the status is in_progress the
\* last turn is unanswered.
C1_UnansweredTail ==
    NoCallInFlight =>
        \A i \in DOMAIN interviews :
            /\ \A k \in 1..(Len(History(i)) - 1) :
                    /\ History(i)[k].answer # None
                    /\ History(i)[k].evaluation # None
            /\ Status(i) = IN_PROGRESS =>
                    History(i)[Len(History(i))].answer = None

\* C2: while the status is in_progress the ledger length equals
\* current_question_num, and every step either leaves both unchanged or
\* appends exactly one turn and adds exactly 1 to current_question_num.
C2_LengthIsIndex ==
    /\ [](\A i \in DOMAIN interviews :
            Status(i) = IN_PROGRESS => Len(History(i)) = Index(i))
    /\ [][\A i \in DOMAIN interviews :
            \/ /\ Len(History(i)') = Len(History(i))
               /\ Index(i)' = Index(i)
            \/ /\ Len(History(i)') = Len(History(i)) + 1
               /\ Index(i)' = Index(i) + 1
               /\ SubSeq(History(i)', 1, Len(History(i))) = History(i)]_vars

\* a submit_answer has appended the second question of a session in progress
C2_Witness ==
    \E i \in DOMAIN interviews :
        /\ Status(i) = IN_PROGRESS
        /\ Index(i) = 2
        /\ Len(History(i)) = 2
        /\ last.op = "submit_answer" /\ last.kind = "ok"

\* C3: of two submit_answer calls in flight for the same session with the
\* same question number, at most one records its answer and evaluation and
\* goes on to a next question.
C3_OneOfTwoOverlapping ==
    \A t1, t2 \in Tasks :
        (/\ t1 # t2
         /\ calls[t1].interview_id = calls[t2].interview_id
         /\ calls[t1].question_number = calls[t2].question_number)
        => ~(calls[t1].pc = "generate_question" /\ calls[t2].pc = "generate_question")

\* C4: current_question_num never exceeds num_questions.
C4_IndexWithinTotal ==
    \A i \in DOMAIN interviews : Index(i) <= NumQuestions(i)

\* C5 as stated: a submit_answer on a session present in the store with a
\* question number other than current_question_num fails with
\* InvalidQuestionNumber, starts no provider call and leaves the session
\* unchanged.
C5_WrongNumberAlwaysInvalid ==
    [][\A t \in Tasks, i \in InterviewIds, q \in 1..(MaxQuestions + 1),
         a \in Answers :
            (/\ SubmitAnswer(t, i, q, a)
             /\ i \in storage
             /\ q # Index(i))
            => (/\ last'.kind = "InvalidQuestionNumber"
                /\ calls' = calls
                /\ interviews' = interviews)]_vars

\* C5 amended: on a session that the store still returns, a submit_answer
\* with a question number other than current_question_num fails with
\* InvalidQuestionNumber while the status is in_progress and with
\* AlreadyCompleted once it is completed; either way it starts no provider
\* call and leaves the session unchanged.
C5_WrongNumberRejected ==
    [][\A t \in Tasks, i \in InterviewIds, q \in 1..(MaxQuestions + 1),
         a \in Answers :
            (/\ SubmitAnswer(t, i, q, a)
             /\ GetFinds(i)
             /\ q # Index(i))
            => (/\ last'.op = "submit_answer"
                /\ last'.interview_id = i
                /\ last'.question_number = q
                /\ last'.kind = IF Status(i) = IN_PROGRESS
                                THEN "InvalidQuestionNumber"
                                ELSE "AlreadyCompleted"
                /\ calls' = calls
                /\ interviews' = interviews)]_vars

\* a submit_answer with a wrong number was rejected on a session in progress
C5_Witness ==
    /\ last.op = "submit_answer"
    /\ last.kind = "InvalidQuestionNumber"
    /\ last.interview_id \in storage
    /\ Status(last.interview_id) = IN_PROGRESS
    /\ last.question_number # Index(last.interview_id)

\* C6: when the response just returned is a successful submit_answer for
\* question k, a further submit_answer with the same k on the still live
\* session fails: with AlreadyCompleted if the session is completed (as it
\* is whenever the first call completed it), with InvalidQuestionNumber
\* otherwise.  It starts no provider call and leaves ledger,
\* current_question_num and status as they were.
C6_SecondSubmitRejected ==
    [][\A t \in Tasks, i \in InterviewIds, q \in 1..(MaxQuestions + 1),
         a \in Answers :
            (/\ SubmitAnswer(t, i, q, a)
             /\ last.op = "submit_answer" /\ last.kind = "ok"
             /\ last.interview_id = i /\ last.question_number = q
             /\ GetFinds(i))
            => (/\ last'.op = "submit_answer"
                /\ last'.question_number = q
                /\ last.is_complete => Status(i) = COMPLETED
                /\ last'.kind = IF Status(i) = COMPLETED
                                THEN "AlreadyCompleted"
                                ELSE "InvalidQuestionNumber"
                /\ calls' = calls
                /\ interviews' = interviews)]_vars

\* question k was answered, the session moved on to k + 1, and a second
\* submit_answer for k has been rejected
C6_Witness ==
    \E i \in DOMAIN interviews :
        /\ last.op = "submit_answer"
        /\ last.kind = "InvalidQuestionNumber"
        /\ last.interview_id = i
        /\ Index(i) = last.question_number + 1
        /\ History(i)[last.question_number].answer # None
        /\ NoCallInFlight

\* C7: the status is completed exactly when num_questions turns are
\* answered, and the submit_answer that completes the session returns
\* is_complete, no next question and questions_remaining = 0.
C7_CompletedAtNthAnswer ==
    /\ \A i \in DOMAIN interviews :
            Status(i) = COMPLETED <=> Cardinality(AnsweredTurns(i)) = NumQuestions(i)
    /\ (last.op = "submit_answer" /\ last.kind = "ok" /\ last.is_complete)
            => (last.questions_remaining = 0 /\ last.next_question = None)

\* C8: a session that is completed stays completed.
C8_StatusMonotonic ==
    [][\A i \in DOMAIN interviews :
            Status(i) = COMPLETED => Status(i)' = COMPLETED]_vars

\* a submit_answer in flight since before the completion has appended a
\* turn to the completed session
C8_Witness ==
    \E i \in DOMAIN interviews :
        /\ Status(i) = COMPLETED
        /\ Len(History(i)) > NumQuestions(i)

\* C9: once a session is completed no step changes its ledger,
\* current_question_num, config or status.
C9_CompletedIsFrozen ==
    [][\A i \in DOMAIN interviews :
            Status(i) = COMPLETED => interviews'[i] = interviews[i]]_vars

\* C10: a turn has an answer exactly when it has an evaluation, and once it
\* has them no step replaces either.
C10_AssignedOnce ==
    /\ [](\A i \in DOMAIN interviews : \A k \in 1..Len(History(i)) :
            History(i)[k].answer = None <=> History(i)[k].evaluation = None)
    /\ [][\A i \in DOMAIN interviews : \A k \in 1..Len(History(i)) :
            History(i)[k].answer # None =>
                /\ History(i)'[k].answer = History(i)[k].answer
                /\ History(i)'[k].evaluation = History(i)[k].evaluation]_vars
C11_StepUp(d) == IF d = "easy" THEN "medium" ELSE "hard"
C11_StepDown(d) == IF d = "hard" THEN "medium" ELSE "easy"
C11_Level(d) == IF d = "easy" THEN 0 ELSE IF d = "medium" THEN 1 ELSE 2

\* C11: calculate_adaptive_difficulty(d, scores) returns d on an empty list;
\* otherwise the level one step above d when the mean is at least 8 and d is
\* not hard, the level one step below d when the mean is at most 4 and d is
\* not easy, and d in every other case.  The result is never more than one
\* level away from d, and the sessions and the store are as they were.
C11_OneStepByMean ==
    /\ interviews = <<>> /\ storage = {} /\ timestamps = <<>>
    /\ \A t \in Tasks : calls[t].pc = "returned" =>
          LET d == calls[t].current_difficulty
              scores == calls[t].recent_scores
              n == Len(scores)
              result == calls[t].result[1]
              expected ==
                  IF n = 0 THEN d
                  ELSE IF Sum(scores) >= 8 * n /\ d # "hard" THEN C11_StepUp(d)
                  ELSE IF Sum(scores) <= 4 * n /\ d # "easy"
                       THEN C11_StepDown(d)
                       ELSE d
          IN  /\ result = expected
              /\ C11_Level(result) - C11_Level(d) \in {-1, 0, 1}
              /\ (n > 0 /\ 4 * n < Sum(scores) /\ Sum(scores) < 8 * n)
                    => result = d

\* three 9s at easy give medium
C11_Witness ==
    \E t \in Tasks :
        /\ calls[t].pc = "returned"
        /\ calls[t].current_difficulty = "easy"
        /\ calls[t].recent_scores = <<9, 9, 9>>
        /\ calls[t].result = Some("medium")

\* C12: a get of an entry last touched more than the timeout ago returns
\* None and removes the entry from both dictionaries in the same call; a get
\* of an entry touched at most the timeout ago returns the stored object and
\* keeps it.  An entry disappears in no other way than by a get of it or a
\* sweep, either finding it expired, or by a delete of it.
C12_ExpiredGetRemoves ==
    [][/\ \A i \in StoreIds : StoreGet(i) =>
            /\ (i \in storage /\ now - timestamps[i] > session_timeout) =>
                  /\ last'.result = None
                  /\ i \notin storage'
                  /\ i \notin DOMAIN timestamps'
            /\ (i \in storage /\ now - timestamps[i] <= session_timeout) =>
                  /\ last'.result = Some(interviews[i])
                  /\ i \in storage'
                  /\ i \in DOMAIN timestamps'
       /\ \A i \in storage \ storage' :
            \/ /\ now - timestamps[i] > session_timeout
               /\ StoreGet(i) \/ StoreCleanupExpired
            \/ StoreDelete(i)]_vars

\* a get has just missed an entry that was stored once and whose timeout
\* has run out on the clock
C12_Witness ==
    /\ last.op = "get"
    /\ last.result = None
    /\ last.interview_id \in DOMAIN interviews
    /\ last.interview_id \notin storage
    /\ last.time > session_timeout

\* C13: a get that returns the entry sets its timestamp to the time of the
\* read, and the next store operation being a get of the same id no later
\* than the timeout after a successful get, create or update of it, that get
\* succeeds too: touched at 0, read at timeout - 1 and read again at
\* 2 * timeout - 2, the entry is returned both times.
C13_GetRefreshes ==
    [][\A i \in StoreIds : StoreGet(i) =>
          /\ last'.result # None =>
                /\ i \in storage'
                /\ timestamps'[i] = now
          /\ ( /\ last.interview_id = i
               /\ \/ last.op = "get" /\ last.result # None
                  \/ last.op \in {"create", "update"}
               /\ now - last.time <= session_timeout )
             => last'.result # None]_vars

\* the second read of the sequence succeeded at a time at which the entry
\* would have expired had the first read not refreshed it
C13_Witness ==
    /\ last.op = "get"
    /\ last.result # None
    /\ last.time = 2 * session_timeout - 2
    /\ last.time > session_timeout
    /\ timestamps[last.interview_id] = last.time

\* C14: an update of a session whose id the store does not hold leaves the
\* store without an entry for that id.
C14_UpdateAbsentFails ==
    [][\A interview \in StoreSessions :
          (StoreUpdate(interview) /\ interview.interview_id \notin storage) =>
              /\ interview.interview_id \notin storage'
              /\ interview.interview_id \notin DOMAIN timestamps']_vars

\* C15: a create of a session whose id the store already holds leaves the
\* stored object and its timestamp as they were.
C15_CreatePresentFails ==
    [][\A interview \in StoreSessions :
          (StoreCreate(interview) /\ interview.interview_id \in storage) =>
              /\ interviews'[interview.interview_id] =
                    interviews[interview.interview_id]
              /\ timestamps'[interview.interview_id] =
                    timestamps[interview.interview_id]]_vars

\* C16: delete returns true and removes the id from both dictionaries when
\* the store holds it, and returns false and changes nothing when it does
\* not; a delete directly after a delete of the same id returns false and
\* changes nothing; the entries of the other ids stay as they are.
C16_DeleteIdempotent ==
    [][\A i \in StoreIds : StoreDelete(i) =>
          /\ last'.result = (i \in storage)
          /\ i \notin storage'
          /\ i \notin DOMAIN timestamps'
          /\ i \notin storage =>
                /\ storage' = storage
                /\ timestamps' = timestamps
                /\ interviews' = interviews
          /\ (last.op = "delete" /\ last.interview_id = i) =>
                /\ last'.result = FALSE
                /\ storage' = storage
                /\ timestamps' = timestamps
          /\ \A j \in StoreIds \ {i} :
                /\ j \in storage' <=> j \in storage
                /\ j \in storage =>
                      /\ timestamps'[j] = timestamps[j]
                      /\ interviews'[j] = interviews[j]]_vars

\* a delete of an id that was stored once and is gone has returned false
\* while the other id is still stored
C16_Witness ==
    /\ last.op = "delete"
    /\ last.result = FALSE
    /\ last.interview_id \in DOMAIN interviews
    /\ last.interview_id \notin storage
    /\ storage # {}

\* C17: cleanup_expired removes exactly the entries last touched more than
\* the timeout ago, returns how many they are and leaves every other entry
\* and its timestamp as it was; right after it no stored entry is expired,
\* so a get at that time finds every entry that is left.
C17_SweepRemovesExpired ==
    [][StoreCleanupExpired =>
          LET expired ==
                  {i \in storage : now - timestamps[i] > session_timeout}
          IN  /\ storage' = storage \ expired
              /\ DOMAIN timestamps' = storage'
              /\ last'.result = Cardinality(expired)
              /\ \A i \in storage' :
                    /\ timestamps'[i] = timestamps[i]
                    /\ interviews'[i] = interviews[i]
                    /\ now' - timestamps'[i] <= session_timeout']_vars

\* a sweep has removed one of two entries: the one left is as old as the
\* timeout allows
C17_Witness ==
    /\ last.op = "cleanup_expired"
    /\ last.result = 1
    /\ last.time = now
    /\ \E i \in storage : now - timestamps[i] = session_timeout

C18_Inside(t) == calls[t].pc # "idle"

\* C18: at most one task is inside a store operation at a time, and it is
\* the holder of the lock; while it is inside, no other task takes a step,
\* so the expiry test of get and the removal that follows see the same
\* store.  Whenever an operation starts, the two dictionaries have the same
\* keys, and no operation ever deletes a key that another one has deleted
\* already (no del raises KeyError).
C18_StoreOperationsExclusive ==
    /\ [](/\ \A t, u \in Tasks : (C18_Inside(t) /\ C18_Inside(u)) => t = u
          /\ \A t \in Tasks : C18_Inside(t) <=> lock = Some(t)
          /\ lock = None => DOMAIN timestamps = storage
          /\ last.op # "KeyError")
    /\ [][\A t \in Tasks : lock = Some(t) =>
            /\ \A u \in Tasks \ {t} : calls'[u] = calls[u]
            /\ lock' \in {None, Some(t)}]_vars

\* a get is between its two deletions: the key is gone from _storage and
\* still in _timestamps, and the other task is outside
C18_Witness ==
    \E t \in Tasks :
        /\ calls[t].pc = "get_del_timestamps"
        /\ lock = Some(t)
        /\ calls[t].interview_id \notin storage
        /\ calls[t].interview_id \in DOMAIN timestamps
        /\ \A u \in Tasks \ {t} : calls[u].pc = "idle"

\* C19: get_report on a session that the store returns and whose status is
\* not completed fails with NotCompleted, starts no provider call and leaves
\* every session as it was; on a session that is absent or expired it fails
\* with NotFound; on a completed session it goes on to the provider.
C19_ReportNeedsCompleted ==
    [][\A t \in Tasks, i \in InterviewIds : GetReport(t, i) =>
          LET found == i \in storage /\ now - timestamps[i] <= session_timeout
          IN  /\ ~found =>
                    /\ last' = Response("get_report", i, 0, "NotFound")
                    /\ calls' = calls
              /\ (found /\ Status(i) # COMPLETED) =>
                    /\ last' = Response("get_report", i, 0, "NotCompleted")
                    /\ calls' = calls
                    /\ interviews' = interviews
              /\ (found /\ Status(i) = COMPLETED) =>
                    /\ calls'[t].pc = "generate_final_report"
                    /\ last' = last]_vars

\* get_report has just been refused on a live session in progress that has
\* answered turns
C19_Witness ==
    /\ last.op = "get_report"
    /\ last.kind = "NotCompleted"
    /\ last.interview_id \in storage
    /\ Status(last.interview_id) = IN_PROGRESS
    /\ AnsweredTurns(last.interview_id) # {}
    /\ NoCallInFlight

\* the sum of the scores of the answered turns among the first k
RECURSIVE C20_Total(_, _)
C20_Total(i, k) ==
    IF k = 0 THEN 0
    ELSE C20_Total(i, k - 1) +
         (IF k \in AnsweredTurns(i) THEN History(i)[k].evaluation[1].score
          ELSE 0)

\* C20: when get_report returns the report of a completed session and the
\* provider left overall_score out, the overall_score returned times the
\* number of answered turns of the session equals the sum of their scores;
\* when the provider gave an overall_score, that number is returned.
C20_OverallScoreIsMean ==
    [][\A t \in Tasks, s \in ProviderOverallScores :
          GenerateFinalReportReturns(t, s) =>
              LET i == calls[t].interview_id
                  n == Cardinality(AnsweredTurns(i))
                  overall_score == last'.overall_score[1]
              IN  /\ s = None =>
                        overall_score.num * n =
                            C20_Total(i, Len(History(i))) * overall_score.den
                  /\ s # None =>
                        overall_score.num = s[1] * overall_score.den]_vars

C22_ValidationOrder ==
    [][\A t \in Tasks, i \in InterviewIds, q \in 1..(MaxQuestions + 1),
         a \in Answers :
            SubmitAnswer(t, i, q, a) =>
                LET found ==
                        i \in storage /\ now - timestamps[i] <= session_timeout
                    expected ==
                        IF ~found THEN "NotFound"
                        ELSE IF Status(i) = COMPLETED THEN "AlreadyCompleted"
                        ELSE IF q # Index(i) THEN "InvalidQuestionNumber"
                        ELSE "accepted"
                IN  /\ interviews' = interviews
                    /\ expected # "accepted" =>
                          /\ last' = Response("submit_answer", i, q, expected)
                          /\ calls' = calls
                    /\ expected = "accepted" =>
                          /\ calls'[t].pc = "evaluate_answer"
                          /\ last' = last]_vars

\* a submit_answer with a number that is not the current one has been
\* answered with AlreadyCompleted on a completed session
C22_Witness ==
    /\ last.op = "submit_answer"
    /\ last.kind = "AlreadyCompleted"
    /\ last.interview_id \in storage
    /\ Status(last.interview_id) = COMPLETED
    /\ last.question_number # Index(last.interview_id)

\* C23: within one submit_answer the provider is called in one order and
\* never again: evaluate_answer is entered only from the start of the call,
\* generate_question only from the return of evaluate_answer, and a call
\* that leaves the provider returns to its caller.  When evaluate_answer or
\* generate_question raises, submit_answer ends there and fails, and when
\* the generate_question of start_interview raises, start_interview fails;
\* no failure is answered as a success.
C23_NoRetry ==
    [][/\ \A t \in Tasks :
            /\ (calls'[t].pc = "evaluate_answer" /\ calls'[t] # calls[t])
                  => calls[t].pc = "idle"
            /\ (calls'[t].pc = "generate_question" /\ calls'[t] # calls[t])
                  => calls[t].pc = "evaluate_answer"
            /\ (calls[t].pc # "idle" /\ calls'[t].pc = "idle") =>
                  /\ last'.op = "submit_answer"
                  /\ last'.interview_id = calls[t].interview_id
                  /\ last'.question_number = calls[t].question_number
            /\ (EvaluateAnswerFails(t) \/ GenerateQuestionFails(t)) =>
                  /\ calls'[t].pc = "idle"
                  /\ last'.kind = "ProviderFailure"
       /\ StartInterviewFails =>
            /\ last'.op = "start_interview"
            /\ last'.kind = "ProviderFailure"
            /\ calls' = calls]_vars

\* generate_question failed after the answer was evaluated, and the
\* submit_answer has failed
C23_Witness ==
    \E i \in DOMAIN interviews :
        /\ last.op = "submit_answer"
        /\ last.kind = "ProviderFailure"
        /\ last.interview_id = i
        /\ Status(i) = IN_PROGRESS
        /\ History(i)[Len(History(i))].evaluation # None
        /\ NoCallInFlight
\* C24: a successful submit_answer response carries questions_remaining =
\* config.num_questions - current_question_num for the current_question_num
\* it carries, and questions_remaining is never negative.
C24_RemainingMatchesIndex ==
    (last.op = "submit_answer" /\ last.kind = "ok") =>
        /\ last.questions_remaining =
              NumQuestions(last.interview_id) - last.current_question_num
        /\ last.questions_remaining >= 0
\* the failure kinds the service raises as InterviewServiceError
C25_TypedKinds ==
    {"NotFound", "AlreadyCompleted", "InvalidQuestionNumber", "NotCompleted"}

\* C25: the four failure kinds are raised as four different exception
\* classes; an endpoint answers NotFound with 404, AlreadyCompleted,
\* InvalidQuestionNumber and NotCompleted with 400, any other exception
\* with 500, and a success with none of the three.
C25_ErrorMapping ==
    /\ \A k1, k2 \in C25_TypedKinds : ErrorClass(k1) = ErrorClass(k2) => k1 = k2
    /\ last.kind = "NotFound" => last.status_code = 404
    /\ last.kind \in C25_TypedKinds \ {"NotFound"} => last.status_code = 400
    /\ last.kind = "ProviderFailure" => last.status_code = 500
    /\ last.status_code = 500 => last.kind \notin C25_TypedKinds \cup {"ok"}
    /\ last.kind = "ok" => last.status_code \in {200, 201}

\* get_report was answered 404 for a session that had expired
C25_Witness ==
    /\ last.op = "get_report"
    /\ last.kind = "NotFound"
    /\ last.status_code = 404
    /\ last.interview_id \in DOMAIN interviews
\* C26: get_current_question fails with NotFound for an absent or expired
\* session; for a COMPLETED session it returns nothing; otherwise it returns
\* the question of the last turn, and that turn is unanswered and its
\* question number is current_question_num.  The session is unchanged.
C26_CurrentQuestionIsOpenTail ==
    [][\A i \in InterviewIds :
        GetCurrentQuestion(i) =>
            /\ interviews' = interviews
            /\ last'.op = "get_current_question"
            /\ IF ~(i \in storage /\ now - timestamps[i] <= session_timeout)
               THEN last'.kind = "NotFound"
               ELSE /\ last'.kind = "ok"
                    /\ IF Status(i) = COMPLETED
                       THEN last'.next_question = None
                       ELSE LET tail == History(i)[Len(History(i))]
                            IN  /\ last'.next_question = Some(tail.question)
                                /\ tail.answer = None
                                /\ tail.question.question_number = Index(i)]_vars
\* a submit_answer call of task t returns in this step
C27_SubmitReturns(t) ==
    /\ calls[t].pc \in {"evaluate_answer", "generate_question"}
    /\ calls'[t].pc = "idle"

C28_Answered(history) == {j \in 1..Len(history) : history[j].answer # None}

\* w is the scores of the last min(3, k) answered turns, oldest first
C28_IsWindow(w, history, k) ==
    LET idx == C28_Answered(history)
        m == IF k < 3 THEN k ELSE 3
    IN  /\ Len(w) = m
        /\ Cardinality(idx) >= m
        /\ \A p \in 1..m :
              \E j \in idx :
                  /\ Cardinality({x \in idx : x > j}) = m - p
                  /\ history[j].evaluation # None
                  /\ w[p] = history[j].evaluation[1].score

\* C28: when evaluate_answer returns in a submit_answer for question k that
\* does not complete the session, the scores handed to the controller are
\* those of the last min(3, k) answered turns of the ledger, oldest first,
\* the answer just recorded included, and generate_question is called with
\* question number k + 1 and the difficulty the controller returns for
\* config.difficulty and those scores.
C28_NextQuestionRequest ==
    [][\A t \in Tasks, s \in Scores :
        (EvaluateAnswerReturns(t, s) /\ calls'[t].pc = "generate_question") =>
            LET i == calls[t].interview_id
                k == calls[t].question_number
                history == History(i)'
            IN  /\ history[calls[t].current_record].evaluation =
                      Some(QuestionEvaluation(s))
                /\ C28_IsWindow(RecentScores(history), history, k)
                /\ calls'[t].next_question_number = k + 1
                /\ calls'[t].adaptive_difficulty =
                      Some(calculate_adaptive_difficulty(
                               interviews[i].config.difficulty,
                               RecentScores(history)))]_vars
\* C29: the i-th turn of every ledger has question number i, and while the
\* status is in_progress the question number of the last turn is
\* current_question_num.
C29_LedgerNumbered ==
    \A i \in DOMAIN interviews :
        /\ \A k \in 1..Len(History(i)) :
              History(i)[k].question.question_number = k
        /\ Status(i) = IN_PROGRESS =>
              History(i)[Len(History(i))].question.question_number = Index(i)
\* the number of levels between two difficulties
C30_Distance(d1, d2) ==
    IF IndexOf(d1) >= IndexOf(d2) THEN IndexOf(d1) - IndexOf(d2)
    ELSE IndexOf(d2) - IndexOf(d1)

\* C30: the config of a session never changes; the difficulty a
\* submit_answer requests for the next question is the controller's output
\* for config.difficulty and the recent scores, and every difficulty
\* requested from generate_question is at most one level from
\* config.difficulty.
C30_RequestedNearConfig ==
    /\ [](\A t \in Tasks :
            calls[t].pc = "generate_question" =>
                C30_Distance(calls[t].adaptive_difficulty[1],
                             interviews[calls[t].interview_id].config.difficulty)
                    <= 1)
    /\ [][\A i \in DOMAIN interviews :
            interviews'[i].config = interviews[i].config]_vars
    /\ [][\A t \in Tasks, s \in Scores :
            (EvaluateAnswerReturns(t, s) /\ calls'[t].pc = "generate_question")
            => calls'[t].adaptive_difficulty =
                   Some(calculate_adaptive_difficulty(
                            interviews[calls[t].interview_id].config.difficulty,
                            RecentScores(History(calls[t].interview_id)')))]_vars

\* the third question of a session started at easy is requested at medium
\* after two high scores, the second on a question of medium difficulty
C30_Witness ==
    \E t \in Tasks :
        /\ calls[t].pc = "generate_question"
        /\ calls[t].next_question_number = 3
        /\ LET i == calls[t].interview_id
           IN  /\ interviews[i].config.difficulty = "easy"
               /\ Len(History(i)) = 2
               /\ History(i)[2].question.difficulty = "medium"
               /\ RecentScores(History(i)) = <<9, 9>>
               /\ calls[t].adaptive_difficulty = Some("medium")
\* C31: when evaluate_answer raises in a submit_answer, the step changes
\* neither the session nor the store (update is not called), the call
\* fails, and on the session as the call leaves it, if it has not expired,
\* a submit_answer with the same question number passes the checks (the
\* session is as it was when the call was accepted).
C31_EvaluateFailureLeavesSession ==
    [][\A t \in Tasks :
        EvaluateAnswerFails(t) =>
            LET i == calls[t].interview_id
                q == calls[t].question_number
            IN  /\ interviews' = interviews
                /\ storage' = storage
                /\ timestamps' = timestamps
                /\ last'.kind = "ProviderFailure"
                /\ GetFinds(i) => SubmitCheck(TRUE, interviews'[i], q) = "ok"]_vars
\* C32: when generate_question raises in a submit_answer, the step changes
\* neither the session nor the store (no turn is appended, update is not
\* called), the call fails, the ledger is as long as when the call was
\* accepted, and on the session as the call leaves it, if it has not
\* expired, a submit_answer with the same question number passes the
\* checks.
C32_GenerateFailureKeepsIndex ==
    [][\A t \in Tasks :
        GenerateQuestionFails(t) =>
            LET i == calls[t].interview_id
                q == calls[t].question_number
            IN  /\ interviews' = interviews
                /\ storage' = storage
                /\ timestamps' = timestamps
                /\ last'.kind = "ProviderFailure"
                /\ Len(interviews'[i].conversation_history) =
                      calls[t].current_record
                /\ GetFinds(i) => SubmitCheck(TRUE, interviews'[i], q) = "ok"]_vars
\* C33: every evaluation in a ledger has a score in 1..10; a provider
\* response without a score is recorded with the score 5; a response whose
\* score is outside 1..10 makes the submit_answer fail and leaves every
\* session as it is.
C33_ScoresInRange ==
    /\ [](\A i \in DOMAIN interviews : \A k \in 1..Len(History(i)) :
            History(i)[k].evaluation # None =>
                History(i)[k].evaluation[1].score \in 1..10)
    /\ [][\A t \in Tasks, r \in ResponseScores :
            EvaluateAnswerResponds(t, r) =>
                LET i == calls[t].interview_id
                    k == calls[t].current_record
                IN  /\ r = None =>
                          interviews'[i].conversation_history[k].evaluation
                              = Some(QuestionEvaluation(5))
                    /\ (r # None /\ r[1] \notin 1..10) =>
                          /\ interviews' = interviews
                          /\ last'.op = "submit_answer"
                          /\ last'.kind = "ProviderFailure"]_vars

\* an answer was recorded with the default score, and the last
\* submit_answer failed
C33_Witness ==
    \E i \in DOMAIN interviews :
        /\ History(i)[1].evaluation = Some(QuestionEvaluation(5))
        /\ last.op = "submit_answer"
        /\ last.kind = "ProviderFailure"
        /\ History(i)[Len(History(i))].evaluation = None
\* C34: a get_report that passed its checks calls generate_final_report
\* once and changes no session; the report it returns has one breakdown
\* entry for each answered turn of the session, in ledger order, with the
\* turn's question number and score, and questions_answered is the number
\* of answered turns, which is num_questions.
C34_ReportBreakdown ==
    [][\A t \in Tasks :
        /\ \A i \in InterviewIds : GetReport(t, i) => interviews' = interviews
        /\ (calls'[t].pc = "generate_final_report" /\ calls'[t] # calls[t])
              => calls[t].pc = "idle"
        /\ GenerateFinalReportFails(t) => interviews' = interviews
        /\ \A s \in ProviderOverallScores :
              GenerateFinalReportReturns(t, s) =>
                LET i == calls[t].interview_id
                    answered == C28_Answered(History(i))
                    breakdown == last'.question_wise_breakdown
                IN  /\ interviews' = interviews
                    /\ calls'[t].pc = "idle"
                    /\ last'.kind = "ok"
                    /\ last'.questions_answered = Cardinality(answered)
                    /\ last'.questions_answered = NumQuestions(i)
                    /\ Len(breakdown) = Cardinality(answered)
                    /\ \A p \in 1..Len(breakdown) :
                          \E k \in answered :
                              /\ Cardinality({x \in answered : x < k}) = p - 1
                              /\ breakdown[p].question_number =
                                    History(i)[k].question.question_number
                              /\ History(i)[k].evaluation # None
                              /\ breakdown[p].score =
                                    History(i)[k].evaluation[1].score]_vars
\* session b is as it was: its object, its key and its last-touch time
C35_Same(b) ==
    /\ interviews'[b] = interviews[b]
    /\ b \in storage' <=> b \in storage
    /\ b \in DOMAIN timestamps' <=> b \in DOMAIN timestamps
    /\ b \in DOMAIN timestamps => timestamps'[b] = timestamps[b]

\* C35: a step of an operation on a session (start_interview,
\* submit_answer and get_report at each of their steps, the reads, delete)
\* leaves every other session's object, key and last-touch time as they
\* were, and cleanup_expired removes only keys of expired sessions.
C35_SessionsIsolated ==
    [][\A b \in DOMAIN interviews :
        /\ DOMAIN interviews' # DOMAIN interviews => C35_Same(b)
        /\ \A t \in Tasks :
              (/\ calls[t].pc # "idle"
               /\ calls'[t] # calls[t]
               /\ calls[t].interview_id # b) => C35_Same(b)
        /\ \A a \in SessionIds \ {b} :
              /\ (\E t \in Tasks, q \in 1..2, x \in Answers :
                      SubmitAnswer(t, a, q, x)) => C35_Same(b)
              /\ (\E t \in Tasks : GetReport(t, a)) => C35_Same(b)
              /\ GetInterviewState(a) => C35_Same(b)
              /\ GetCurrentQuestion(a) => C35_Same(b)
              /\ StoreDelete(a) => C35_Same(b)
        /\ StoreCleanupExpired =>
              \/ C35_Same(b)
              \/ /\ b \in storage
                 /\ now - timestamps[b] > session_timeout
                 /\ b \notin storage'
                 /\ interviews'[b] = interviews[b]]_vars
\* session 1 was started after session 2, answered to its end and
\* reported, while session 2 stayed as it was started
C35_Witness ==
    /\ 1 \in DOMAIN interviews
    /\ Status(1) = COMPLETED
    /\ last.op = "get_report" /\ last.kind = "ok" /\ last.interview_id = 1
    /\ 1 \in storage /\ timestamps[1] > 0
    /\ 2 \in storage /\ timestamps[2] = 0
    /\ Status(2) = IN_PROGRESS /\ Index(2) = 1 /\ History(2)[1].answer = None
\* the position of the first message of the type in to_client, or 0
C36_First(type) ==
    IF \E p \in 1..Len(ws.to_client) : ws.to_client[p] = type
    THEN CHOOSE p \in 1..Len(ws.to_client) :
            /\ ws.to_client[p] = type
            /\ \A r \in 1..(p - 1) : ws.to_client[r] # type
    ELSE 0

\* C36: ready is sent to the client only when the upstream connection
\* has been opened and the session configuration sent upstream, and no
\* transcript, speech_started or speech_stopped precedes it; a session
\* refused for the missing library or the empty API key sends the client
\* one error and nothing else, closes, and never opens an upstream
\* connection.
C36_ReadyAfterUpstream ==
    /\ C36_First("ready") > 0 =>
          /\ ws.upstream # "none"
          /\ Len(ws.to_upstream) >= 1
          /\ ws.to_upstream[1] = "session.update"
    /\ \A p \in 1..Len(ws.to_client) :
          ws.to_client[p] \in {"transcript", "speech_started", "speech_stopped"}
              => (C36_First("ready") > 0 /\ C36_First("ready") < p)
    /\ (ws.pc # "accept" /\ (~ws.available \/ ~ws.api_key)) =>
          /\ ws.upstream = "none"
          /\ ws.to_upstream = <<>>
          /\ ws.to_client \in {<<>>, <<"error">>}
          /\ ws.pc \in {"refuse", "refuse_close", "done"}
          /\ ws.pc = "refuse_close" => ws.to_client = <<"error">>
          /\ (ws.pc = "done" /\ ws.client # "gone") =>
                (ws.to_client = <<"error">> /\ ws.client = "closed")
C36_Witness ==
    /\ ws.pc = "wait"
    /\ ws.to_upstream = <<"session.update">>
    /\ ws.to_client = <<"ready", "transcript">>

\* the session has reached ready
C37_Ready == C36_First("ready") > 0

\* a relay direction has ended
C37_RelayEnded == ws.openai_task = "done" \/ ws.client_task = "done"

\* the step forwards a message to the upstream or a transcript to the client
C37_Forwards ==
    \/ ws'.to_upstream # ws.to_upstream
    \/ ws'.to_client = Append(ws.to_client, "transcript")

C38_InBoth(interview_id) ==
    interview_id \in storage' /\ interview_id \in DOMAIN timestamps'

\* the key is in neither dictionary after the step
C38_InNeither(interview_id) ==
    interview_id \notin storage' /\ interview_id \notin DOMAIN timestamps'

\* C38: between store operations _storage and _timestamps have the same
\* keys: create and update leave the id in both, delete leaves it in
\* neither, a get of an expired entry leaves it in neither and any other
\* get changes no key, cleanup_expired leaves no expired id in either, and
\* no operation touches the key of another id.
C38_SameKeys ==
    /\ [](DOMAIN timestamps = storage)
    /\ [][/\ \A interview \in StoreSessions :
                (StoreCreate(interview) \/ StoreUpdate(interview)) =>
                    /\ C38_InBoth(interview.interview_id)
                    /\ storage' \ {interview.interview_id}
                           = storage \ {interview.interview_id}
          /\ \A i \in StoreIds :
                /\ StoreDelete(i) =>
                      /\ C38_InNeither(i)
                      /\ storage' = storage \ {i}
                /\ StoreGet(i) =>
                      IF i \in storage /\ Expired(i)
                      THEN C38_InNeither(i) /\ storage' = storage \ {i}
                      ELSE storage' = storage
          /\ StoreCleanupExpired =>
                /\ \A i \in ExpiredIds : C38_InNeither(i)
                /\ storage' = storage \ ExpiredIds]_vars

\* cleanup_expired has just removed two expired sessions from both
\* dictionaries
C38_Witness ==
    /\ last.op = "cleanup_expired"
    /\ last.result = 2
    /\ storage = {}
    /\ timestamps = <<>>
====
